---- MODULE Spec2Model ----
(***************************************************************************)
(* Verification model of the spectrasync bot: the clip conversion          *)
(* pipeline (src/bot/clip-gif-processor.ts), the per-guild tracker         *)
(* schedulers (start / bootstrap / stop of the VIP, Community Pool, Raid   *)
(* Pile and Raid Train trackers) and the reconciliation pass of the        *)
(* trackers that post one card per live entity.                            *)
(*                                                                         *)
(* The module holds several state machines that share no state.  Each has  *)
(* its own group of variables and its own specification (the channel       *)
(* synchronizer has two: one runs passes, one runs stops); a specification *)
(* keeps the variables of the other machines at their initial value.       *)
(***************************************************************************)
EXTENDS Integers, Sequences, FiniteSets, TLC

VARIABLES
    \* ---- clip conversion pipeline (clip-gif-processor.ts) ----
    doc,              \* the clip document in the store
    notif,            \* per process: change notifications not yet delivered
    activeListeners,  \* per process: the collection listener is registered
    processingDocs,   \* per process: the in-process set of converting keys
    pc,               \* per process: position of its running processClipDoc
    tempDir,          \* per process: the scratch directory of its current or
                      \* latest invocation: "none", "exists", or "left"
                      \* (its removal failed and the failure was ignored)
    snapOf,           \* per process: status in the snapshot its invocation got
    claimedFrom,      \* history: processes whose invocation on a pending
                      \* snapshot committed the claim
    outcome,          \* history, per process: how its current or latest
                      \* invocation left the pipeline: "none" (not yet),
                      \* "null" (claim refused), "complete", or the step
                      \* that threw
    \* ---- scheduler of one (guild, tracker type) pair ----
    kind,             \* the tracker type of the pair
    activeTrackers,   \* activeTrackers[guildId]: a timer id, or 0 when unset
    intervals,        \* the interval timers that exist (set and not cleared)
    due,              \* interval timers that have not fired in this window
    ticks,            \* interval ticks fired in the current interval window
    timeouts,         \* pending setTimeout callbacks of start*Tracking
    loads,            \* config loads of fired timeouts, not yet resolved
    passes,           \* check* passes started by timers, still in flight
    boot,             \* position of the running runInitial*Check, or "idle"
    stopPc,           \* position of the running stop*Tracking, or "idle"
    cfg,              \* the persisted channel configuration exists
    calls,            \* history: the start / boot / stop calls made so far
    stopped,          \* history: stop was called, and neither start nor
                      \* bootstrap since
    checkedAfterStop, \* history: a timer started a pass (check* with a
                      \* configuration to load) while stopped
    \* ---- channel synchronizer of one (guild, tracker type) pair ----
    style,            \* how the running stop*Tracking deletes: "each" (VIP)
                      \* or "bulk" (Community Pool, Raid Pile)
    cdoc,             \* the persisted channel configuration document
    chan,             \* ids of the messages that exist in the channel
    nextId,           \* id the channel gives to the next message sent
    mstore,           \* messageStore[guildId], the in-memory copy
    ppc,              \* position of the running check* pass, or "idle"
    live,             \* the pass's list of live entities, in its order
    pidx,             \* index in live of the entity being handled
    todo,             \* posted ids the offline cleanup has not visited yet
    pres,             \* how the last pass ended ("running" while in flight)
    runs,             \* passes started so far
    P0,               \* history: the posted-id map the pass diffed against
    unfetched,        \* history: live entities whose posted card could not
                      \* be fetched in this pass
    nDel,             \* history: card deletes issued by this pass
    nCreate,          \* history: card creates issued by this pass
    oldClip,          \* the pass's oldClipMessageId of live[pidx]
    again,            \* this pass repeats the previous one's live list
    chan0,            \* history: the channel's messages when the pass began
    id0,              \* history: the next message id when the pass began
    failedAt,         \* history: the step whose error ended the pass
    initial,          \* isInitialCheck of the pass: bootstrap called it
    edits,            \* history: ids of the messages this pass edited
    bpc,              \* position of runInitialVipCheck
    b0,               \* history: the next message id when bootstrap began
    spc,              \* position of the running stop*Tracking, or "idle"
    sids,             \* stop: messageIdsToDelete
    attempted,        \* history: ids stop has issued a delete for
    sres,             \* what the last stop returned ("none" while running)
    sSeen,            \* history: what stop's read of the document found
    sOps,             \* history: channel operations of this stop
    sWrites,          \* history: document-store writes of this stop
    \* ---- the ordered live list (community-pool-tracker.ts, raid-pile-tracker.ts) ----
    startedAt,        \* started_at of each user's stream
    dbUsersA,         \* the live users in the order one store read returns them
    dbUsersB,         \* the same users in the order another read returns them
    liveUsersA,       \* liveUsers computed from dbUsersA
    liveUsersB,       \* liveUsers computed from dbUsersB
    lpc,              \* "read": users read; "sorted": liveUsers computed
    \* ---- raid pile reconciliation pass (raid-pile-tracker.ts) ----
    rdoc,             \* the persisted raidPileChannel document
    rchan,            \* ids of the messages in the pile's channel
    rnext,            \* id the channel gives to the next message sent
    rstore,           \* messageStore[guildId] of the raid pile
    rpc,              \* position of checkRaidPile
    rres,             \* how the last pass ended
    rholder,          \* whether liveUsers has a holder in this pass
    rnewClip,         \* the pass's newClipId
    rruns,            \* passes started
    \* ---- the timers of several guilds in one process (raid-pile-tracker.ts) ----
    procUp,           \* the bot process is running
    armed,            \* guilds whose interval timer is set
    wanted,           \* history: guilds whose tracking was started
    inflight,         \* per guild: passes started and not returned
    fired,            \* per guild: ticks that have fired
    \* ---- the Community Pool spotlight of several guilds (community-pool-tracker.ts) ----
    spotlightIndex,   \* the module-level rotation counter, one for all guilds
    spotSeq,          \* history, per guild: list length and index chosen in
                      \* each of its passes
    aloneIndex,       \* per guild: the counter of a run in which the other
                      \* guilds do nothing
    aloneSeq,         \* history, per guild: the indexes chosen in that run
    poolCalls,        \* passes and bootstraps run so far
    \* ---- the clock readings of a Raid Train pass (raid-train-tracker.ts) ----
    now,              \* the wall clock, in hours since the start of day 0
    tpc,              \* position of checkRaidTrain
    dateKey,          \* the pass's dateKey, as a day number
    currentHour,      \* the pass's currentHour
    slotDate,         \* history: the day on which currentHour was read
    trainRuns,        \* passes started so far
    sched,            \* the signups of the schedule: day and hour -> signup
    tlive,            \* ids of the live users the pass fetched
    conductor,        \* the pass's conductor, or "none"
    tclip,            \* messageStore[guildId].clipId of the raid train
    tdocClip,         \* clipId of the persisted raidTrainChannel document
    clipPosted,       \* history: the pass has sent a clip message
    \* ---- VipLiveScheduler (vip-live-scheduler.ts) ----
    vipLiveScheduler, \* globalThis.__vipLiveScheduler__ holds the instance
    guildSet,         \* initialGuildId of the instance is not empty
    runPromise,       \* runPromise: 0 for null or the number of the loop it belongs to
    aborted,          \* abortController.signal.aborted
    loopPc,           \* position of loop(): none sleep config dispatch done
    loops,            \* history: calls of loop() so far
    requests,         \* dispatch requests in flight
    startReturns,     \* history: the run promises start() has returned
    startCalls,       \* calls of start() and ensureVipLiveScheduler() so far
    stopState,        \* the call of stop(): idle waiting resolved
    stoppedAt,        \* history: position of the loop when stop() was called
    dispatchAfterStop,\* history: a dispatch began after stop() had resolved
    \* ---- The standalone VIP refresh script (part_004) ----
    timer,            \* the interval timer is set
    running,          \* the running flag of runCycle
    cyclePc,          \* position of the cycle in flight: idle fetch json
    cycles,           \* cycles between running = true and the finally block
    sentRequests,     \* history: requests sent so far
    cycleCalls,       \* history: calls of runCycle so far
    skippedTicks,     \* history: calls of runCycle that returned at the running test
    exits,            \* history: the ways cycles have ended
    exited            \* process.exit has been called

clipVars == <<doc, notif, activeListeners, processingDocs, pc, tempDir, snapOf,
              claimedFrom, outcome>>

schedVars == <<kind, activeTrackers, intervals, due, ticks, timeouts, loads,
               passes, boot, stopPc, cfg, calls, stopped, checkedAfterStop>>

syncVars == <<style, cdoc, chan, nextId, mstore, ppc, live, pidx, todo, pres,
              runs, P0, unfetched, nDel, nCreate, oldClip, again, chan0, id0,
              failedAt, initial, edits, bpc, b0, spc, sids, attempted, sres, sSeen, sOps, sWrites>>

sortVars == <<startedAt, dbUsersA, dbUsersB, liveUsersA, liveUsersB, lpc>>

pileVars == <<rdoc, rchan, rnext, rstore, rpc, rres, rholder, rnewClip, rruns>>

timerVars == <<procUp, armed, wanted, inflight, fired>>

spotVars == <<spotlightIndex, spotSeq, aloneIndex, aloneSeq, poolCalls>>

trainVars == <<now, tpc, dateKey, currentHour, slotDate, trainRuns, sched, tlive,
               conductor, tclip, tdocClip, clipPosted>>

vipVars == <<vipLiveScheduler, guildSet, runPromise, aborted, loopPc, loops,
             requests, startReturns, startCalls, stopState, stoppedAt,
             dispatchAfterStop>>

scriptVars == <<timer, running, cyclePc, cycles, sentRequests, cycleCalls,
                skippedTicks, exits, exited>>

vars == <<clipVars, schedVars, syncVars, sortVars, pileVars, timerVars, spotVars,
          trainVars, vipVars, scriptVars>>

(***************************************************************************)
(* Clip conversion pipeline                                                *)
(***************************************************************************)

\* The bot processes that may listen to the same clip collection.
Procs == {"p1", "p2"}

\* Undelivered change notifications kept per listener.
MaxNotif == 2

\* ClipDocumentData.processingStatus
Statuses == {"pending", "processing", "complete", "error"}

\* What a snapshot of the document carries (the fields the code reads).
Snapshot(d) == [status |-> d.status, gifUrl |-> d.gifUrl]

\* A committed write reaches every registered listener as a "modified" change.
Notify(d) ==
    [p \in Procs |-> IF activeListeners[p] THEN Append(notif[p], Snapshot(d))
                     ELSE notif[p]]

\* Room for the notification of one more write in every listener's queue.
CanNotify == \A p \in Procs : activeListeners[p] => Len(notif[p]) < MaxNotif

\* The fields of a clip document that the pipeline writes, as present or
\* absent, before any conversion.
NoOutput ==
    [gifUrl |-> FALSE, gifStoragePath |-> FALSE, durationSeconds |-> FALSE,
     processingStartedAt |-> FALSE, processedAt |-> FALSE,
     errorMessage |-> FALSE, errorAt |-> FALSE]

ClipDoc(status, hasVideo) ==
    [f \in {"status", "videoUrl"} \cup DOMAIN NoOutput |->
        IF f = "status" THEN status
        ELSE IF f = "videoUrl" THEN hasVideo
        ELSE NoOutput[f]]

ClipInit ==
    /\ doc \in {ClipDoc("pending", v) : v \in BOOLEAN}
    /\ notif = [p \in Procs |-> <<>>]
    /\ activeListeners = [p \in Procs |-> FALSE]
    /\ processingDocs = [p \in Procs |-> FALSE]
    /\ pc = [p \in Procs |-> "idle"]
    /\ tempDir = [p \in Procs |-> "none"]
    /\ snapOf = [p \in Procs |-> "none"]
    /\ claimedFrom = {}
    /\ outcome = [p \in Procs |-> "none"]

\* startClipGifProcessing: registers the listener once; the first snapshot
\* reports the existing document as an "added" change.
startClipGifProcessing(p) ==
    /\ ~activeListeners[p]
    /\ activeListeners' = [activeListeners EXCEPT ![p] = TRUE]
    /\ notif' = [notif EXCEPT ![p] = Append(@, Snapshot(doc))]
    /\ UNCHANGED <<doc, processingDocs, pc, tempDir, snapOf, claimedFrom, outcome>>

\* The synchronous head of processClipDoc: the guard that lets an
\* invocation go on to the claim transaction.
PassesPrecheck(p, snap) ==
    /\ ~processingDocs[p]
    /\ ~snap.gifUrl
    /\ snap.status # "complete"

\* The listener callback delivers one change: processClipDoc runs up to its
\* first await (the claim transaction) or returns at once.
processClipDoc(p) ==
    /\ activeListeners[p]
    /\ notif[p] # <<>>
    /\ LET snap == Head(notif[p]) IN
         /\ notif' = [notif EXCEPT ![p] = Tail(@)]
         /\ IF PassesPrecheck(p, snap)
            THEN /\ processingDocs' = [processingDocs EXCEPT ![p] = TRUE]
                 /\ pc' = [pc EXCEPT ![p] = "claim"]
                 /\ snapOf' = [snapOf EXCEPT ![p] = snap.status]
                 /\ outcome' = [outcome EXCEPT ![p] = "none"]
                 /\ tempDir' = [tempDir EXCEPT ![p] = "none"]
            ELSE UNCHANGED <<processingDocs, pc, snapOf, outcome, tempDir>>
    /\ UNCHANGED <<doc, activeListeners, claimedFrom>>

\* A claim test that forgets the source URL.
MayClaimWithoutUrl(d) ==
    /\ ~d.gifUrl
    /\ d.status # "processing"
    /\ d.status # "complete"

\* markProcessing's decision inside the transaction, on the re-read document.
MayClaim(d) ==
    /\ d.videoUrl
    /\ ~d.gifUrl
    /\ d.status # "processing"
    /\ d.status # "complete"

\* markProcessing commits: the claim, or null (then processClipDoc returns
\* through its finally block).
markProcessing(p) ==
    /\ pc[p] = "claim"
    /\ IF MayClaim(doc)
       THEN /\ CanNotify
            /\ doc' = [doc EXCEPT !.status = "processing",
                                  !.processingStartedAt = TRUE]
            /\ notif' = Notify(doc')
            /\ pc' = [pc EXCEPT ![p] = "mkdtemp"]
            /\ claimedFrom' = IF snapOf[p] = "pending" THEN claimedFrom \cup {p}
                               ELSE claimedFrom
            /\ UNCHANGED <<processingDocs, snapOf, outcome>>
       ELSE /\ pc' = [pc EXCEPT ![p] = "idle"]
            /\ processingDocs' = [processingDocs EXCEPT ![p] = FALSE]
            /\ snapOf' = [snapOf EXCEPT ![p] = "none"]
            /\ outcome' = [outcome EXCEPT ![p] = "null"]
            /\ UNCHANGED <<doc, notif, claimedFrom>>
    /\ UNCHANGED <<activeListeners, tempDir>>

\* db.runTransaction rejects (contention, network): the outer catch of
\* processClipDoc runs updateDocWithError.
markProcessingThrows(p) ==
    /\ pc[p] = "claim"
    /\ pc' = [pc EXCEPT ![p] = "errwrite"]
    /\ outcome' = [outcome EXCEPT ![p] = "claim"]
    /\ UNCHANGED <<doc, notif, activeListeners, processingDocs, tempDir, snapOf,
                   claimedFrom>>

\* mkdtemp creates the scratch directory, or throws into the outer catch.
MakeTempDir(p) ==
    /\ pc[p] = "mkdtemp"
    /\ \/ /\ tempDir' = [tempDir EXCEPT ![p] = "exists"]
          /\ pc' = [pc EXCEPT ![p] = "download"]
          /\ UNCHANGED outcome
       \/ /\ pc' = [pc EXCEPT ![p] = "errwrite"]
          /\ outcome' = [outcome EXCEPT ![p] = "mkdtemp"]
          /\ UNCHANGED tempDir
    /\ UNCHANGED <<doc, notif, activeListeners, processingDocs, snapOf, claimedFrom>>

\* The step after each stage of the inner try block.
NextStage(s) ==
    CASE s = "download" -> "convert"
      [] s = "convert"  -> "upload"
      [] s = "upload"   -> "finalize"

\* downloadMp4, convertMp4ToGif, bucket.upload: each succeeds or throws; a
\* throw runs the inner finally (rm) and then the outer catch.
PipelineStage(p) ==
    /\ pc[p] \in {"download", "convert", "upload"}
    /\ \/ /\ pc' = [pc EXCEPT ![p] = NextStage(pc[p])]
          /\ UNCHANGED outcome
       \/ /\ pc' = [pc EXCEPT ![p] = "rm_err"]
          /\ outcome' = [outcome EXCEPT ![p] = pc[p]]
    /\ UNCHANGED <<doc, notif, activeListeners, processingDocs, tempDir, snapOf,
                   claimedFrom>>

\* The update of finalizeDoc; FieldValue.delete() removes the error fields.
FinalUpdate(d) ==
    [d EXCEPT !.gifUrl = TRUE, !.gifStoragePath = TRUE,
              !.durationSeconds = TRUE, !.status = "complete",
              !.processedAt = TRUE, !.errorMessage = FALSE, !.errorAt = FALSE]

\* finalizeDoc: the completion write, or its failure.
finalizeDoc(p) ==
    /\ pc[p] = "finalize"
    /\ \/ /\ CanNotify
          /\ doc' = FinalUpdate(doc)
          /\ notif' = Notify(doc')
          /\ pc' = [pc EXCEPT ![p] = "rm_ok"]
          /\ outcome' = [outcome EXCEPT ![p] = "complete"]
       \/ /\ pc' = [pc EXCEPT ![p] = "rm_err"]
          /\ outcome' = [outcome EXCEPT ![p] = "finalize"]
          /\ UNCHANGED <<doc, notif>>
    /\ UNCHANGED <<activeListeners, processingDocs, tempDir, snapOf, claimedFrom>>

\* A cleanup that runs on the success path only.
RemoveOnSuccessOnly(p) ==
    /\ pc[p] \in {"rm_ok", "rm_err"}
    /\ IF pc[p] = "rm_ok"
       THEN /\ \E left \in {"none", "left"} :
                  tempDir' = [tempDir EXCEPT ![p] = left]
            /\ pc' = [pc EXCEPT ![p] = "idle"]
            /\ processingDocs' = [processingDocs EXCEPT ![p] = FALSE]
            /\ snapOf' = [snapOf EXCEPT ![p] = "none"]
       ELSE /\ pc' = [pc EXCEPT ![p] = "errwrite"]
            /\ UNCHANGED <<tempDir, processingDocs, snapOf>>
    /\ UNCHANGED <<doc, notif, activeListeners, claimedFrom, outcome>>

\* The inner finally: rm(tempDir, {recursive, force}).catch(() => {}): the
\* directory is removed, or the removal fails and the failure is ignored;
\* then either the outer finally (success) or the outer catch (failure).
RemoveTempDir(p) ==
    /\ pc[p] \in {"rm_ok", "rm_err"}
    /\ \E left \in {"none", "left"} : tempDir' = [tempDir EXCEPT ![p] = left]
    /\ IF pc[p] = "rm_ok"
       THEN /\ pc' = [pc EXCEPT ![p] = "idle"]
            /\ processingDocs' = [processingDocs EXCEPT ![p] = FALSE]
            /\ snapOf' = [snapOf EXCEPT ![p] = "none"]
       ELSE /\ pc' = [pc EXCEPT ![p] = "errwrite"]
            /\ UNCHANGED <<processingDocs, snapOf>>
    /\ UNCHANGED <<doc, notif, activeListeners, claimedFrom, outcome>>

\* The update of updateDocWithError: the message of an Error, or
\* String(error), is stored with the status.
ErrorUpdate(d) ==
    [d EXCEPT !.status = "error", !.errorMessage = TRUE, !.errorAt = TRUE]

\* An error write whose rejection skips the release of the in-process key.
ErrorWriteWithoutFinally(p) ==
    /\ pc[p] = "errwrite"
    /\ \/ /\ CanNotify
          /\ doc' = ErrorUpdate(doc)
          /\ notif' = Notify(doc')
          /\ processingDocs' = [processingDocs EXCEPT ![p] = FALSE]
       \/ UNCHANGED <<doc, notif, processingDocs>>
    /\ pc' = [pc EXCEPT ![p] = "idle"]
    /\ snapOf' = [snapOf EXCEPT ![p] = "none"]
    /\ UNCHANGED <<activeListeners, tempDir, claimedFrom, outcome>>

\* updateDocWithError in the outer catch, then the outer finally.  The
\* update itself may reject, which leaves the document as it was.
updateDocWithError(p) ==
    /\ pc[p] = "errwrite"
    /\ \/ /\ CanNotify
          /\ doc' = ErrorUpdate(doc)
          /\ notif' = Notify(doc')
       \/ UNCHANGED <<doc, notif>>
    /\ pc' = [pc EXCEPT ![p] = "idle"]
    /\ processingDocs' = [processingDocs EXCEPT ![p] = FALSE]
    /\ snapOf' = [snapOf EXCEPT ![p] = "none"]
    /\ UNCHANGED <<activeListeners, tempDir, claimedFrom, outcome>>

(***************************************************************************)
(* Scheduler of one (guild, tracker type) pair: start*Tracking,            *)
(* runInitial*Check (bootstrap) as the command handler runs it,            *)
(* stop*Tracking, and the timers they set.                                 *)
(***************************************************************************)

Trackers == {"vip", "pool", "pile", "train"}

\* start*Tracking of these trackers sets the interval inside a delayed
\* callback (vip-tracker.ts, community-pool-tracker.ts).
Deferred == {"vip", "pool"}

\* External start / bootstrap / stop calls in one behaviour.
MaxCalls == 3

\* Timer-started passes in flight at once.
MaxPasses == 2

\* Identities of interval timers; a cleared timer's identity is free again.
TimerIds == 1..MaxCalls

FreeTimer == CHOOSE id \in TimerIds : id \notin intervals

AllStarts == \A i \in 1..Len(calls) : calls[i] = "start"

\* Passes of the pair that have loaded the configuration and not finished:
\* the timer-started ones and the checkVips / checkCommunityPool that a
\* bootstrap awaits.
InFlight == passes + (IF boot = "check" THEN 1 ELSE 0)

SchedInit ==
    /\ kind \in Trackers
    /\ activeTrackers = 0
    /\ intervals = {}
    /\ due = {}
    /\ ticks = 0
    /\ timeouts = 0
    /\ loads = 0
    /\ passes = 0
    /\ boot = "idle"
    /\ stopPc = "idle"
    /\ cfg \in BOOLEAN
    /\ calls = <<>>
    /\ stopped = FALSE
    /\ checkedAfterStop = FALSE

\* clearInterval(activeTrackers[guildId]); delete activeTrackers[guildId]
ClearActive ==
    /\ intervals' = intervals \ {activeTrackers}
    /\ due' = due \ {activeTrackers}
    /\ activeTrackers' = 0

\* The body of start*Tracking.  VIP and Community Pool test activeTrackers
\* and only set a timeout; Raid Pile sets the interval at once; Raid Train
\* sets the interval at once and defers one check by a timeout.
StartBody ==
    IF activeTrackers # 0
    THEN UNCHANGED <<activeTrackers, intervals, timeouts>>
    ELSE CASE kind \in Deferred ->
                /\ timeouts' = timeouts + 1
                /\ UNCHANGED <<activeTrackers, intervals>>
           [] kind = "pile" ->
                /\ activeTrackers' = FreeTimer
                /\ intervals' = intervals \cup {FreeTimer}
                /\ UNCHANGED timeouts
           [] kind = "train" ->
                /\ timeouts' = timeouts + 1
                /\ activeTrackers' = FreeTimer
                /\ intervals' = intervals \cup {FreeTimer}

\* A timer callback invokes check*: it loads the configuration and returns
\* at once when there is none; otherwise the pass is in flight until PassEnd.
CheckInvoked ==
    /\ passes' = IF cfg THEN passes + 1 ELSE passes
    /\ checkedAfterStop' = (checkedAfterStop \/ (stopped /\ cfg))

\* startTrackers (ready, guildCreate) calls start*Tracking.
StartTracking ==
    /\ Len(calls) < MaxCalls
    /\ calls' = Append(calls, "start")
    /\ StartBody
    /\ stopped' = FALSE
    /\ UNCHANGED <<kind, due, ticks, loads, passes, boot, stopPc, cfg,
                   checkedAfterStop>>

\* The delayed callback of start*Tracking fires and begins loading the
\* configuration.
TimeoutFires ==
    /\ timeouts > 0
    /\ timeouts' = timeouts - 1
    /\ loads' = loads + 1
    /\ UNCHANGED <<kind, activeTrackers, intervals, due, ticks, passes, boot,
                   stopPc, cfg, calls, stopped, checkedAfterStop>>

\* The load resolves.  VIP / Community Pool: the then-callback runs check*
\* and sets the interval, storing it in activeTrackers whatever is there.
\* Raid Train: deferredCheck runs checkRaidTrain only if a config exists.
LoadResolves ==
    /\ loads > 0
    /\ loads' = loads - 1
    /\ cfg => passes < MaxPasses
    /\ IF kind \in Deferred
       THEN /\ CheckInvoked
            /\ activeTrackers' = FreeTimer
            /\ intervals' = intervals \cup {FreeTimer}
       ELSE /\ IF cfg THEN CheckInvoked ELSE UNCHANGED <<passes, checkedAfterStop>>
            /\ UNCHANGED <<activeTrackers, intervals>>
    /\ UNCHANGED <<kind, due, ticks, timeouts, boot, stopPc, cfg, calls, stopped>>

\* The load rejects (document store error): the then-callback never runs.
LoadRejects ==
    /\ loads > 0
    /\ loads' = loads - 1
    /\ UNCHANGED <<kind, activeTrackers, intervals, due, ticks, timeouts, passes,
                   boot, stopPc, cfg, calls, stopped, checkedAfterStop>>

\* An interval timer fires: setInterval(() => check*(client, guildId)).  The
\* callback does not look at passes in flight.
Tick(id) ==
    /\ id \in due
    /\ cfg => passes < MaxPasses
    /\ due' = due \ {id}
    /\ ticks' = ticks + 1
    /\ CheckInvoked
    /\ UNCHANGED <<kind, activeTrackers, intervals, timeouts, loads, boot, stopPc,
                   cfg, calls, stopped>>

\* CHECK_INTERVAL elapses: every existing interval timer is due once more.
NextWindow ==
    /\ due' = intervals
    /\ ticks' = 0
    /\ UNCHANGED <<kind, activeTrackers, intervals, timeouts, loads, passes, boot,
                   stopPc, cfg, calls, stopped, checkedAfterStop>>

\* A timer-started pass ends: it persisted its state (set-with-merge creates
\* the document when it is gone), or it returned or failed before that.
PassEnd ==
    /\ passes > 0
    /\ passes' = passes - 1
    /\ \/ cfg' = TRUE
       \/ cfg' = cfg
    /\ UNCHANGED <<kind, activeTrackers, intervals, due, ticks, timeouts, loads,
                   boot, stopPc, calls, stopped, checkedAfterStop>>

\* runInitial*Check begins: it clears the interval stored in activeTrackers
\* and goes on to post the header.
BootstrapBegin ==
    /\ boot = "idle"
    /\ Len(calls) < MaxCalls
    /\ calls' = Append(calls, "boot")
    /\ IF activeTrackers # 0 THEN ClearActive
       ELSE UNCHANGED <<activeTrackers, intervals, due>>
    /\ boot' = "post"
    /\ stopped' = FALSE
    /\ UNCHANGED <<kind, ticks, timeouts, loads, passes, stopPc, cfg,
                   checkedAfterStop>>

\* VIP / Community Pool: the bootstrap awaits check*(client, guildId, true),
\* which is a pass when an earlier configuration is persisted.  Raid Pile /
\* Raid Train post their messages themselves.
BootstrapCheck ==
    /\ boot = "post"
    /\ boot' = IF kind \in Deferred /\ cfg THEN "check" ELSE "persist"
    /\ UNCHANGED <<kind, activeTrackers, intervals, due, ticks, timeouts, loads,
                   passes, stopPc, cfg, calls, stopped, checkedAfterStop>>

\* The awaited check* of the bootstrap ends, having persisted or not.
BootstrapCheckDone ==
    /\ boot = "check"
    /\ boot' = "persist"
    /\ \/ cfg' = TRUE
       \/ cfg' = cfg
    /\ UNCHANGED <<kind, activeTrackers, intervals, due, ticks, timeouts, loads,
                   passes, stopPc, calls, stopped, checkedAfterStop>>

\* The bootstrap persists the configuration and start*Tracking is called
\* (by the command handler, or by runInitialRaidPileCheck /
\* runInitialRaidTrainCheck themselves).
BootstrapFinish ==
    /\ boot = "persist"
    /\ cfg' = TRUE
    /\ StartBody
    /\ boot' = "idle"
    /\ stopped' = FALSE
    /\ UNCHANGED <<kind, due, ticks, loads, passes, stopPc, calls, checkedAfterStop>>

\* A send or the persist of the bootstrap throws: start*Tracking is not called.
BootstrapFails ==
    /\ boot \in {"post", "persist"}
    /\ boot' = "idle"
    /\ UNCHANGED <<kind, activeTrackers, intervals, due, ticks, timeouts, loads,
                   passes, stopPc, cfg, calls, stopped, checkedAfterStop>>

\* stop*Tracking is called: it clears the interval stored in activeTrackers
\* and goes on to read the configuration.
StopTracking ==
    /\ stopPc = "idle"
    /\ Len(calls) < MaxCalls
    /\ calls' = Append(calls, "stop")
    /\ IF activeTrackers # 0 THEN ClearActive
       ELSE UNCHANGED <<activeTrackers, intervals, due>>
    /\ stopPc' = "read"
    /\ stopped' = TRUE
    /\ UNCHANGED <<kind, ticks, timeouts, loads, passes, boot, cfg,
                   checkedAfterStop>>

\* stop*Tracking returns: false when no configuration is persisted, else it
\* deletes the messages and the configuration document and returns true.
StopReturns ==
    /\ stopPc = "read"
    /\ stopPc' = "idle"
    /\ cfg' = FALSE
    /\ UNCHANGED <<kind, activeTrackers, intervals, due, ticks, timeouts, loads,
                   passes, boot, calls, stopped, checkedAfterStop>>


(***************************************************************************)
(* Channel synchronizer of one (guild, tracker type) pair: the             *)
(* reconciliation pass (checkVips) and stop*Tracking, at the level of the  *)
(* persisted configuration document, the in-memory messageStore and the    *)
(* messages of the channel.  One specification runs passes, the other      *)
(* runs stops; how timers interleave them is the scheduler machine's       *)
(* subject.                                                                *)
(***************************************************************************)

\* The entities (Twitch ids) of the guild's roster.
Ents == {"a", "b"}

\* An absent message id (undefined in the source).
NoMsg == 0

\* Largest message id the channel hands out.
MaxMsg == 11

\* Largest number of passes started.
MaxRuns == 1

\* An id map without entries ({} in the source).
NoMap == [e \in Ents |-> NoMsg]

\* Object.keys / Object.values of an id map.
Keys(m) == {e \in Ents : m[e] # NoMsg}

Values(m) == {m[e] : e \in Keys(m)}

Range(s) == {s[i] : i \in 1..Len(s)}

Max(S) == CHOOSE x \in S : \A y \in S : y <= x

\* No configuration document / no messageStore entry.
NoDoc == [exists |-> FALSE, channelId |-> FALSE, headerId |-> NoMsg,
          footerId |-> NoMsg, cards |-> NoMap, clips |-> NoMap]

NoStore == [exists |-> FALSE, headerId |-> NoMsg, footerId |-> NoMsg,
            cards |-> NoMap, clips |-> NoMap]

\* A document as a bootstrap and earlier passes leave it: header 1, the
\* cards of K, the clips of C, and the footer posted last.
PostedDoc(K, C) ==
    [exists |-> TRUE, channelId |-> TRUE, headerId |-> 1, footerId |-> 6,
     cards |-> [e \in Ents |-> IF e \in K THEN (IF e = "a" THEN 2 ELSE 3)
                                          ELSE NoMsg],
     clips |-> [e \in Ents |-> IF e \in C THEN (IF e = "a" THEN 4 ELSE 5)
                                          ELSE NoMsg]]

\* The documents the pair can start with: none, one without channelId, one
\* that references a header only, or a full one.
StartDocs ==
    {NoDoc, [NoDoc EXCEPT !.exists = TRUE],
     [NoDoc EXCEPT !.exists = TRUE, !.channelId = TRUE, !.headerId = 1]}
    \cup {PostedDoc(K, C) : K \in SUBSET Ents, C \in SUBSET Ents}

\* A weaker test than the source's: any document counts.
HasDocument(d) == d.exists

\* The test "!configDoc.exists ... !config || !config.channelId" of stop, and
\* "!config || !config.channelId" of a pass.
HasConfig(d) == d.exists /\ d.channelId

\* messageIdsToDelete: every id the configuration references,
\* .filter(Boolean).
Refs(d) == ({d.headerId, d.footerId} \cup Values(d.cards) \cup Values(d.clips))
           \ {NoMsg}

\* The store entry loadVipChannelConfig fills from the document data.
loadVipChannelConfig(d) ==
    [exists |-> TRUE, headerId |-> d.headerId, footerId |-> d.footerId,
     cards |-> d.cards, clips |-> d.clips]

\* A map field written by set(..., {merge: true}): the keys written are
\* merged into the stored map; an empty map replaces it.
MergeMap(old, new) ==
    IF Keys(new) = {} THEN NoMap
    ELSE [e \in Ents |-> IF new[e] # NoMsg THEN new[e] ELSE old[e]]

\* The lists of live entities a pass can compute: any entities, any order.
LiveLists ==
    {s \in UNION {[1..n -> Ents] : n \in 0..Cardinality(Ents)} :
        \A i, j \in DOMAIN s : s[i] = s[j] => i = j}

SyncInit ==
    /\ style \in {"each", "bulk"}
    /\ cdoc \in StartDocs
    /\ Keys(cdoc.clips) \subseteq Keys(cdoc.cards)
    /\ \E gone \in SUBSET Refs(cdoc) :
          /\ Cardinality(gone) <= 1
          /\ chan = Refs(cdoc) \ gone
    /\ nextId = 7
    /\ mstore = NoStore
    /\ ppc = "idle"
    /\ live = <<>>
    /\ pidx = 0
    /\ todo = {}
    /\ pres = "none"
    /\ runs = 0
    /\ P0 = NoMap
    /\ unfetched = {}
    /\ nDel = 0
    /\ nCreate = 0
    /\ oldClip = NoMsg
    /\ again = FALSE
    /\ chan0 = {}
    /\ id0 = 7
    /\ failedAt = "none"
    /\ initial = FALSE
    /\ edits = {}
    /\ bpc = "idle"
    /\ b0 = 7
    /\ spc = "idle"
    /\ sids = {}
    /\ attempted = {}
    /\ sres = "none"
    /\ sSeen = "unread"
    /\ sOps = 0
    /\ sWrites = 0

passVars == <<ppc, live, pidx, todo, pres, runs, P0, unfetched, nDel, nCreate,
              oldClip, again, chan0, id0, failedAt, initial, edits>>

bootVars == <<bpc, b0>>

stopVars == <<spc, sids, attempted, sres, sSeen, sOps, sWrites>>

\* The pass ends without persisting: an early return, or the catch block.
PassEnds(how) ==
    /\ ppc' = "idle"
    /\ pres' = how

\* The step at which an error ended the pass, once one has.
FailedAt(step) == IF pres' \in {"aborted", "escaped"} THEN step ELSE failedAt

\* channel.messages.delete(id) with its .catch: the message is gone
\* afterwards unless the delete failed.
DeleteFrom(c, ids) == {c \ (ids \ kept) : kept \in SUBSET ids}

\* The head of checkVips, up to the configuration test: load the document
\* into the store; return when there is none or it has no channelId. The
\* load stands before the try block, so its rejection leaves checkVips.
LoadConfig ==
    /\ ppc = "idle"
    /\ spc = "idle"
    /\ pidx' = 0
    /\ todo' = {}
    /\ P0' = NoMap
    /\ unfetched' = {}
    /\ nDel' = 0
    /\ nCreate' = 0
    /\ oldClip' = NoMsg
    /\ chan0' = chan
    /\ id0' = nextId
    /\ \/ /\ PassEnds("escaped")          \* the document read rejects
          /\ UNCHANGED mstore
       \/ /\ ~cdoc.exists
          /\ PassEnds("noconfig")
          /\ UNCHANGED mstore
       \/ /\ cdoc.exists
          /\ mstore' = loadVipChannelConfig(cdoc)
          /\ IF HasConfig(cdoc)
             THEN ppc' = "channel" /\ pres' = "running"
             ELSE PassEnds("noconfig")
    /\ failedAt' = IF pres' = "escaped" THEN "load" ELSE "none"
    /\ edits' = {}
    /\ UNCHANGED <<style, cdoc, chan, nextId, stopVars>>

\* A timer tick or the initial check calls checkVips.
checkVips ==
    /\ runs < MaxRuns
    /\ runs' = runs + 1
    /\ live' = <<>>
    /\ again' = FALSE
    /\ initial' = FALSE
    /\ UNCHANGED bootVars
    /\ LoadConfig

\* The next tick calls checkVips after a pass that persisted, and Twitch
\* and the store answer as they did for that pass.
checkVipsAgain ==
    /\ pres = "done"
    /\ ~again
    /\ again' = TRUE
    /\ UNCHANGED <<runs, live, initial, bootVars>>
    /\ LoadConfig

\* client.channels.fetch(config.channelId).catch(() => null)
FetchChannel ==
    /\ ppc = "channel"
    /\ \/ PassEnds("nochannel")
       \/ ppc' = "roster" /\ UNCHANGED pres
    /\ UNCHANGED <<style, cdoc, chan, nextId, mstore, live, pidx, todo, runs,
                   P0, unfetched, nDel, nCreate, oldClip, again, initial, chan0, id0,
                   failedAt, stopVars, bootVars,
                   edits>>

\* started_at of each entity's stream, as Twitch reports it: b went live
\* before a.
StartedAt == [e \in Ents |-> IF e = "a" THEN 1 ELSE 0]

\* getVipTwitchIds, getTwitchStreams, getUsersFromDb and the two id sets.
\* liveVips keeps the order in which getUsersFromDb returned the users.
LiveVips ==
    /\ ppc = "roster"
    /\ \/ /\ PassEnds("aborted")          \* a store or Twitch read throws
          /\ UNCHANGED <<live, pidx, todo, P0>>
       \/ /\ ~again
          /\ initial => live = <<>>
          /\ ppc' = "noroster"            \* vipIds.length === 0
          /\ P0' = mstore.cards
          /\ UNCHANGED <<live, pidx, todo, pres>>
       \/ \E L \in LiveLists :
            /\ (again \/ initial) => L = live
            /\ live' = L
            /\ pidx' = 1
            /\ todo' = Keys(mstore.cards)
            /\ P0' = mstore.cards
            /\ ppc' = "offline"
            /\ UNCHANGED pres
    /\ failedAt' = FailedAt("roster")
    /\ UNCHANGED <<style, cdoc, chan, nextId, mstore, runs, unfetched, nDel,
                   nCreate, oldClip, again, initial, chan0, id0, stopVars, bootVars,
                   edits>>

\* The branch for an empty roster: delete every card and clip, empty the
\* maps, edit the footer if it can be fetched, and return without persisting.
ClearAll ==
    /\ ppc = "noroster"
    /\ chan' \in DeleteFrom(chan, Values(mstore.cards) \cup Values(mstore.clips))
    /\ nDel' = nDel + Cardinality(Keys(mstore.cards))
    /\ mstore' = [mstore EXCEPT !.cards = NoMap, !.clips = NoMap]
    /\ \/ /\ PassEnds("empty")
          /\ edits' = edits \cup ({mstore.footerId} \cap chan')
       \/ /\ mstore.footerId \in chan'    \* footerMessage.edit throws
          /\ PassEnds("aborted")
          /\ UNCHANGED edits
    /\ failedAt' = FailedAt("footer")
    /\ UNCHANGED <<style, cdoc, nextId, live, pidx, todo, runs, P0, unfetched,
                   nCreate, oldClip, again, initial, chan0, id0, stopVars, bootVars>>

\* A cleanup that spares nobody.
AlwaysOffline(e) == e \in Ents

\* !liveVipIds.has(twitchId)
WentOffline(e) == e \notin Range(live)

\* One iteration of "for (const twitchId of postedVipIds)": the card of an
\* entity that went offline is deleted, and its clip message if it has one.
CleanupOffline ==
    /\ ppc = "offline"
    /\ IF todo = {}
       THEN /\ ppc' = IF live = <<>> THEN "footer" ELSE "card"
            /\ UNCHANGED <<chan, mstore, todo, nDel>>
       ELSE LET e == CHOOSE x \in todo : TRUE
            IN  /\ todo' = todo \ {e}
                /\ UNCHANGED ppc
                /\ IF WentOffline(e)
                   THEN /\ chan' \in DeleteFrom(chan, {mstore.cards[e],
                                                       mstore.clips[e]} \ {NoMsg})
                        /\ nDel' = nDel + 1
                        /\ mstore' = [mstore EXCEPT !.cards[e] = NoMsg,
                                                    !.clips[e] = NoMsg]
                   ELSE UNCHANGED <<chan, mstore, nDel>>
    /\ UNCHANGED <<style, cdoc, nextId, live, pidx, pres, runs, P0, unfetched,
                   nCreate, oldClip, again, initial, chan0, id0, failedAt, stopVars, bootVars,
                   edits>>

\* channel.send of a card for entity e; the new id goes into the store.
SendCard(e) ==
    /\ nextId <= MaxMsg
    /\ chan' = chan \cup {nextId}
    /\ nextId' = nextId + 1
    /\ mstore' = [mstore EXCEPT !.cards[e] = nextId]
    /\ nCreate' = nCreate + 1
    /\ ppc' = "clip"
    /\ UNCHANGED pres

\* The card of live[pidx]: edit the posted message; create one when the
\* entity has no posted id or the posted message cannot be fetched.
PostCard ==
    /\ ppc = "card"
    /\ LET e == live[pidx]
           id == mstore.cards[e]
       IN  \/ /\ id # NoMsg               \* fetched, message.edit resolves
              /\ id \in chan
              /\ ppc' = "clip"
              /\ edits' = edits \cup {id}
              /\ UNCHANGED <<chan, nextId, mstore, pres, unfetched, nCreate>>
           \/ /\ id # NoMsg               \* fetch yields null
              /\ unfetched' = unfetched \cup {e}
              /\ SendCard(e)
              /\ UNCHANGED edits
           \/ /\ id = NoMsg               \* no posted id
              /\ SendCard(e)
              /\ UNCHANGED <<unfetched, edits>>
           \/ /\ PassEnds("aborted")      \* edit or send throws
              /\ unfetched' \in {unfetched,
                                 IF id # NoMsg THEN unfetched \cup {e}
                                               ELSE unfetched}
              /\ UNCHANGED <<chan, nextId, mstore, nCreate, edits>>
    /\ failedAt' = FailedAt("card")
    /\ UNCHANGED <<style, cdoc, live, pidx, todo, runs, P0, nDel, oldClip,
                   again, initial, chan0, id0, stopVars, bootVars>>

\* What the fetch of an entity's recent clips can yield: some clips, none,
\* or a rejected request.
getTwitchClips == {"clips", "none", "rejects"}

\* buildClipGifMessageOptions: the fetch of the clip list is awaited
\* outside any try, so its rejection is thrown on; no clip, no download
\* URL or a failed conversion yields null.
buildClipGifMessageOptions(list, converted) ==
    IF list = "rejects" THEN "throws"
    ELSE IF list = "none" \/ ~converted THEN "null"
    ELSE "options"

\* The clip of live[pidx], first half: remember the old clip id, build the
\* new clip and send it; a failed send is caught and keeps the old id.
PostClip ==
    /\ ppc = "clip"
    /\ \E list \in getTwitchClips, converted \in BOOLEAN, sent \in BOOLEAN :
         LET e == live[pidx]
             built == buildClipGifMessageOptions(list, converted)
         IN  IF built = "throws"
             THEN /\ PassEnds("aborted")
                  /\ UNCHANGED <<chan, nextId, mstore, oldClip>>
             ELSE /\ oldClip' = mstore.clips[e]
                  /\ ppc' = "oldclip"
                  /\ UNCHANGED pres
                  /\ IF built = "options" /\ sent /\ nextId <= MaxMsg
                     THEN /\ chan' = chan \cup {nextId}
                          /\ nextId' = nextId + 1
                          /\ mstore' = [mstore EXCEPT !.clips[e] = nextId]
                     ELSE UNCHANGED <<chan, nextId, mstore>>
    /\ failedAt' = FailedAt("clip")
    /\ UNCHANGED <<style, cdoc, live, pidx, todo, runs, P0, unfetched, nDel,
                   nCreate, again, initial, chan0, id0, stopVars, bootVars,
                   edits>>

\* The clip of live[pidx], second half: "if (oldClipMessageId)" delete the
\* old clip message, whether or not a new one was posted.
DeleteOldClip ==
    /\ ppc = "oldclip"
    /\ chan' \in DeleteFrom(chan, {oldClip} \ {NoMsg})
    /\ oldClip' = NoMsg
    /\ ppc' = IF pidx = Len(live) THEN "footer" ELSE "card"
    /\ pidx' = IF pidx = Len(live) THEN pidx ELSE pidx + 1
    /\ UNCHANGED <<style, cdoc, nextId, mstore, live, todo, pres, runs, P0,
                   unfetched, nDel, nCreate, again, initial, chan0, id0, failedAt,
                   stopVars, bootVars,
                   edits>>

\* The footer: edit it when it is the last message, re-post it when it is
\* not, post one when it cannot be fetched.
UpdateFooter ==
    /\ ppc = "footer"
    /\ LET f == mstore.footerId
       IN  \/ /\ f \in chan               \* fetched and last: edit
              /\ Max(chan) = f
              /\ ppc' = "persist"
              /\ edits' = edits \cup {f}
              /\ UNCHANGED <<chan, nextId, mstore, pres>>
           \/ /\ f \in chan               \* fetched, not last: re-post
              /\ Max(chan) # f
              /\ nextId <= MaxMsg
              /\ chan' \in {c \cup {nextId} : c \in DeleteFrom(chan, {f})}
              /\ nextId' = nextId + 1
              /\ mstore' = [mstore EXCEPT !.footerId = nextId]
              /\ ppc' = "persist"
              /\ UNCHANGED <<pres, edits>>
           \/ /\ f \in chan               \* re-post: delete, then send throws
              /\ Max(chan) # f
              /\ chan' \in DeleteFrom(chan, {f})
              /\ PassEnds("aborted")
              /\ UNCHANGED <<nextId, mstore, edits>>
           \/ /\ ~initial                 \* fetch yields null: post a footer
              /\ nextId <= MaxMsg
              /\ chan' = chan \cup {nextId}
              /\ nextId' = nextId + 1
              /\ mstore' = [mstore EXCEPT !.footerId = nextId]
              /\ ppc' = "persist"
              /\ UNCHANGED <<pres, edits>>
           \/ /\ initial                  \* fetch yields null, isInitialCheck
              /\ ppc' = "persist"
              /\ UNCHANGED <<chan, nextId, mstore, pres, edits>>
           \/ /\ PassEnds("aborted")      \* fetch, edit or send throws
              /\ UNCHANGED <<chan, nextId, mstore, edits>>
    /\ failedAt' = FailedAt("footer")
    /\ UNCHANGED <<style, cdoc, live, pidx, todo, runs, P0, unfetched, nDel,
                   nCreate, oldClip, again, initial, chan0, id0, stopVars, bootVars>>

\* The document after set(..., {merge: true}) of the store's ids.
MergedDoc ==
    [exists |-> TRUE, channelId |-> TRUE,
     headerId |-> mstore.headerId,
     footerId |-> mstore.footerId,
     cards |-> MergeMap(cdoc.cards, mstore.cards),
     clips |-> MergeMap(cdoc.clips, mstore.clips)]

\* "Persist all changes": setVipLiveChannel at the end of the pass.
setVipLiveChannel ==
    /\ ppc = "persist"
    /\ \/ /\ cdoc' = MergedDoc
          /\ PassEnds("done")
       \/ /\ PassEnds("aborted")          \* the write throws
          /\ UNCHANGED cdoc
    /\ failedAt' = FailedAt("persist")
    /\ UNCHANGED <<style, chan, nextId, mstore, live, pidx, todo, runs, P0,
                   unfetched, nDel, nCreate, oldClip, again, initial, chan0, id0,
                   stopVars, bootVars,
                   edits>>

\* runInitialVipCheck, up to the call of checkVips: empty the store, send
\* a header and keep its id. L is the list of the VIPs who are live while
\* the bootstrap runs.
runInitialVipCheck ==
    /\ bpc = "idle"
    /\ ppc = "idle"
    /\ spc = "idle"
    /\ b0' = nextId
    /\ \E L \in LiveLists : live' = L
    /\ \/ /\ nextId <= MaxMsg
          /\ chan' = chan \cup {nextId}
          /\ nextId' = nextId + 1
          /\ mstore' = [NoStore EXCEPT !.exists = TRUE, !.headerId = nextId]
          /\ bpc' = "check"
       \/ /\ mstore' = [NoStore EXCEPT !.exists = TRUE]
          /\ bpc' = "threw"               \* the send of the header throws
          /\ UNCHANGED <<chan, nextId>>
    /\ UNCHANGED <<style, cdoc, ppc, pidx, todo, pres, runs, P0, unfetched,
                   nDel, nCreate, oldClip, again, chan0, id0, failedAt,
                   initial, edits, stopVars>>

\* await checkVips(client, guildId, true)
BootCheckVips ==
    /\ bpc = "check"
    /\ bpc' = "pass"
    /\ initial' = TRUE
    /\ again' = FALSE
    /\ UNCHANGED <<runs, live, b0>>
    /\ LoadConfig

\* After checkVips has returned: count the live VIPs, send the footer and
\* keep its id. An error thrown out of checkVips ends the bootstrap.
BootFooter ==
    /\ bpc = "pass"
    /\ ppc = "idle"
    /\ \/ /\ pres # "escaped"
          /\ nextId <= MaxMsg
          /\ chan' = chan \cup {nextId}
          /\ nextId' = nextId + 1
          /\ mstore' = [mstore EXCEPT !.footerId = nextId]
          /\ bpc' = "persist"
       \/ /\ bpc' = "threw"               \* a read or the send throws
          /\ UNCHANGED <<chan, nextId, mstore>>
    /\ UNCHANGED <<style, cdoc, passVars, b0, stopVars>>

\* The setVipLiveChannel that ends the bootstrap.
BootPersist ==
    /\ bpc = "persist"
    /\ \/ /\ cdoc' = MergedDoc
          /\ bpc' = "done"
       \/ /\ bpc' = "threw"               \* the write throws
          /\ UNCHANGED cdoc
    /\ UNCHANGED <<style, chan, nextId, mstore, passVars, b0, stopVars>>

\* What the read of the document at the start of stop found.
Seen(d) == IF ~d.exists THEN "absent"
           ELSE IF ~d.channelId THEN "nochannel" ELSE "config"

\* stop*Tracking, up to the configuration test: read the document; return
\* false when there is none or it has no channelId.
stopVipTracking ==
    /\ spc = "idle"
    /\ ppc = "idle"
    /\ attempted' = {}
    /\ sOps' = 0
    /\ sWrites' = 0
    /\ \/ /\ sres' = "threw"              \* the document read rejects
          /\ sSeen' = "unread"
          /\ sids' = {}
          /\ UNCHANGED spc
       \/ /\ sSeen' = Seen(cdoc)
          /\ IF HasConfig(cdoc)
             THEN /\ spc' = "channel"
                  /\ sids' = Refs(cdoc)
                  /\ sres' = "none"
             ELSE /\ sres' = "false"
                  /\ sids' = {}
                  /\ UNCHANGED spc
    /\ UNCHANGED <<style, cdoc, chan, nextId, mstore, passVars, bootVars>>

\* client.channels.fetch(config.channelId).catch(() => null); no message is
\* deleted when it yields null.
StopFetchChannel ==
    /\ spc = "channel"
    /\ sOps' = sOps + 1
    /\ \/ spc' = "config" /\ UNCHANGED mstore
       \/ /\ spc' = "delete"
          /\ mstore' = IF style = "each" THEN loadVipChannelConfig(cdoc)
                                         ELSE mstore
    /\ UNCHANGED <<style, cdoc, chan, nextId, passVars, bootVars, sids, attempted, sres,
                   sSeen, sWrites>>

\* VIP: "for (const id of messageIdsToDelete)", one awaited delete each.
StopDeleteEach ==
    /\ spc = "delete"
    /\ style = "each"
    /\ IF sids \subseteq attempted
       THEN /\ spc' = "config"
            /\ UNCHANGED <<chan, attempted, sOps>>
       ELSE LET id == CHOOSE x \in sids \ attempted : TRUE
            IN  /\ attempted' = attempted \cup {id}
                /\ chan' \in DeleteFrom(chan, {id})
                /\ sOps' = sOps + 1
                /\ UNCHANGED spc
    /\ UNCHANGED <<style, cdoc, nextId, mstore, passVars, bootVars, sids, sres, sSeen,
                   sWrites>>

\* Community Pool and Raid Pile: bulkDelete(ids, true) when there is more
\* than one id, with individual deletes when it rejects; one delete when
\* there is exactly one id.  bulkDelete with filterOld drops the ids older
\* than two weeks (the smaller ids) before it deletes.
StopBulkDelete ==
    /\ spc = "delete"
    /\ style = "bulk"
    /\ spc' = "config"
    /\ IF Cardinality(sids) > 1
       THEN \/ \E cut \in 0..MaxMsg :     \* bulkDelete resolves
                 LET young == {id \in sids : id > cut}
                 IN  /\ attempted' = young
                     /\ chan' = chan \ young
                     /\ sOps' = sOps + 1
            \/ /\ attempted' = sids       \* bulkDelete rejects
               /\ chan' \in DeleteFrom(chan, sids)
               /\ sOps' = sOps + 1 + Cardinality(sids)
       ELSE /\ attempted' = sids
            /\ chan' \in DeleteFrom(chan, sids)
            /\ sOps' = sOps + Cardinality(sids)
    /\ UNCHANGED <<style, cdoc, nextId, mstore, passVars, bootVars, sids, sres, sSeen,
                   sWrites>>

\* configDocRef.delete(), delete messageStore[guildId], return true.
StopDeleteConfig ==
    /\ spc = "config"
    /\ spc' = "idle"
    /\ \/ /\ cdoc' = NoDoc
          /\ sWrites' = sWrites + 1
          /\ mstore' = NoStore
          /\ sres' = "true"
       \/ /\ sres' = "threw"              \* the delete rejects
          /\ UNCHANGED <<cdoc, sWrites, mstore>>
    /\ UNCHANGED <<style, chan, nextId, passVars, bootVars, sids, attempted, sSeen, sOps>>

\* An earlier pass of the same pair that is still in flight (the interval
\* callback starts checkVips without awaiting the previous one) runs one
\* iteration of its offline cleanup while this pass awaits its channel and
\* roster reads.  Both passes use the one messageStore[guildId], whose maps
\* this pass's load has just replaced: the earlier pass deletes the card of
\* an entity it found offline, and the clip message, from those maps.
OlderPassCleanup ==
    /\ ppc \in {"channel", "roster"}
    /\ mstore.cards = cdoc.cards
    /\ \E e \in Keys(mstore.cards) :
          /\ chan' \in DeleteFrom(chan, {mstore.cards[e], mstore.clips[e]} \ {NoMsg})
          /\ mstore' = [mstore EXCEPT !.cards[e] = NoMsg, !.clips[e] = NoMsg]
    /\ UNCHANGED <<style, cdoc, nextId, ppc, live, pidx, todo, pres, runs, P0,
                   unfetched, nDel, nCreate, oldClip, again, initial, chan0, id0,
                   failedAt, stopVars, bootVars, edits>>

\* stopVipTracking called while a pass is in flight that already holds
\* "const store = messageStore[guildId]": the whole of stop runs while the
\* pass awaits one of its channel calls.  Stop's loadVipChannelConfig puts
\* the document's ids into that same object, its deletes go out one by one,
\* the document is deleted, and "delete messageStore[guildId]" removes the
\* entry but not the object the pass holds.
StopDuringPass ==
    /\ ppc \in {"offline", "card", "clip", "footer", "persist"}
    /\ spc = "idle"
    /\ sres = "none"
    /\ attempted' = {}
    /\ \/ /\ sres' = "threw"              \* the document read rejects
          /\ sSeen' = "unread"
          /\ sids' = {}
          /\ UNCHANGED <<cdoc, chan, mstore, sOps, sWrites>>
       \/ /\ ~HasConfig(cdoc)
          /\ sres' = "false"
          /\ sSeen' = Seen(cdoc)
          /\ sids' = {}
          /\ UNCHANGED <<cdoc, chan, mstore, sOps, sWrites>>
       \/ /\ HasConfig(cdoc)
          /\ sSeen' = Seen(cdoc)
          /\ sids' = Refs(cdoc)
          /\ \/ /\ UNCHANGED <<chan, mstore>>   \* the channel fetch yields null
                /\ sOps' = 1
             \/ /\ mstore' = loadVipChannelConfig(cdoc)
                /\ chan' \in DeleteFrom(chan, Refs(cdoc))
                /\ sOps' = 1 + Cardinality(Refs(cdoc))
          /\ \/ /\ cdoc' = NoDoc
                /\ sWrites' = 1
                /\ sres' = "true"
             \/ /\ sres' = "threw"        \* the delete of the document rejects
                /\ UNCHANGED <<cdoc, sWrites>>
    /\ UNCHANGED <<style, nextId, passVars, bootVars, spc>>
(***************************************************************************)
(* The reconciliation pass of the Raid Pile (raid-pile-tracker.ts)         *)
(***************************************************************************)

\* The fixed slots of the pile: one message each.
PileSlots == {"header", "holder", "leaderboard", "queue", "footer"}

MaxPileRuns == 2

NoSlots == [s \in PileSlots |-> NoMsg]

NoPileDoc == [exists |-> FALSE, slots |-> NoSlots, clipId |-> NoMsg]

NoPileStore == [exists |-> FALSE, slots |-> NoSlots, clipId |-> NoMsg]

\* What runInitialRaidPileCheck persists: the clip, if one was posted, is
\* sent first, then header, holder, leaderboard, queue and footer.
BootstrapSlots ==
    [s \in PileSlots |-> CASE s = "header" -> 2
                           [] s = "holder" -> 3
                           [] s = "leaderboard" -> 4
                           [] s = "queue" -> 5
                           [] s = "footer" -> 6]

PileDocs ==
    {NoPileDoc} \cup {[exists |-> TRUE, slots |-> BootstrapSlots, clipId |-> c] :
                         c \in {NoMsg, 1}}

PileRefs(d) == ({d.slots[s] : s \in PileSlots} \cup {d.clipId}) \ {NoMsg}

\* loadRaidPileChannelConfig: the store takes every id of the document.
loadRaidPileChannelConfig(d) ==
    [exists |-> TRUE, slots |-> d.slots, clipId |-> d.clipId]

\* A persisted document or none; of the messages it references at most one
\* has been deleted by somebody else since.
PileInit ==
    /\ rdoc \in PileDocs
    /\ \E gone \in SUBSET PileRefs(rdoc) :
          /\ Cardinality(gone) <= 1
          /\ rchan = PileRefs(rdoc) \ gone
    /\ rnext = 7
    /\ rstore = NoPileStore
    /\ rpc = "idle"
    /\ rres = "none"
    /\ rholder = FALSE
    /\ rnewClip = NoMsg
    /\ rruns = 0

\* The pass ends: an early return, the catch block, or the last statement.
PileEnds(how) ==
    /\ rpc' = "idle"
    /\ rres' = how

\* checkRaidPile, up to the configuration test. The load stands before the
\* try block.
checkRaidPile ==
    /\ rpc = "idle"
    /\ rruns < MaxPileRuns
    /\ rruns' = rruns + 1
    /\ rholder' = FALSE
    /\ rnewClip' = NoMsg
    /\ \/ /\ PileEnds("escaped")          \* the document read rejects
          /\ UNCHANGED rstore
       \/ /\ ~rdoc.exists
          /\ PileEnds("noconfig")
          /\ UNCHANGED rstore
       \/ /\ rdoc.exists
          /\ rstore' = loadRaidPileChannelConfig(rdoc)
          /\ rpc' = "channel"
          /\ rres' = "running"
    /\ UNCHANGED <<rdoc, rchan, rnext>>

\* client.channels.fetch(config.channelId).catch(() => null)
PileFetchChannel ==
    /\ rpc = "channel"
    /\ \/ PileEnds("nochannel")
       \/ rpc' = "roster" /\ UNCHANGED rres
    /\ UNCHANGED <<rdoc, rchan, rnext, rstore, rholder, rnewClip, rruns>>

\* The reads of the roster, the streams, the users and the leaderboard;
\* holder = liveUsers[0] or null.
PileLiveUsers ==
    /\ rpc = "roster"
    /\ \/ /\ PileEnds("aborted")          \* a read throws
          /\ UNCHANGED rholder
       \/ /\ rholder' \in BOOLEAN
          /\ rpc' = "oldclip"
          /\ UNCHANGED rres
    /\ UNCHANGED <<rdoc, rchan, rnext, rstore, rnewClip, rruns>>

\* "Delete old clip first if it exists".
PileDeleteOldClip ==
    /\ rpc = "oldclip"
    /\ rchan' \in DeleteFrom(rchan, {rstore.clipId} \ {NoMsg})
    /\ rstore' = [rstore EXCEPT !.clipId = NoMsg]
    /\ rpc' = "newclip"
    /\ UNCHANGED <<rdoc, rnext, rres, rholder, rnewClip, rruns>>

\* "If there's a new holder, post a new clip": a failed send is turned
\* into null; store.clipId = newClipId.
PilePostClip ==
    /\ rpc = "newclip"
    /\ \E list \in getTwitchClips, converted \in BOOLEAN, sent \in BOOLEAN :
         LET built == IF rholder
                      THEN buildClipGifMessageOptions(list, converted)
                      ELSE "null"
         IN  IF built = "throws"
             THEN /\ PileEnds("aborted")
                  /\ UNCHANGED <<rchan, rnext, rstore, rnewClip>>
             ELSE /\ rpc' = "slots"
                  /\ UNCHANGED rres
                  /\ IF built = "options" /\ sent
                     THEN /\ rchan' = rchan \cup {rnext}
                          /\ rnext' = rnext + 1
                          /\ rnewClip' = rnext
                          /\ rstore' = [rstore EXCEPT !.clipId = rnext]
                     ELSE UNCHANGED <<rchan, rnext, rstore, rnewClip>>
    /\ UNCHANGED <<rdoc, rholder, rruns>>

\* Holder, leaderboard, queue and footer: each is fetched and, if the
\* fetch yields a message, edited; nothing is sent for a slot whose
\* message cannot be fetched.
PileUpdateSlots ==
    /\ rpc = "slots"
    /\ \/ rpc' = "persist" /\ UNCHANGED rres
       \/ /\ \E s \in PileSlots \ {"header"} : rstore.slots[s] \in rchan
          /\ PileEnds("aborted")          \* an edit throws
    /\ UNCHANGED <<rdoc, rchan, rnext, rstore, rholder, rnewClip, rruns>>

\* "Persist the new clip ID when the core message identifiers are known":
\* set() without merge replaces the document.
setRaidPileChannel ==
    /\ rpc = "persist"
    /\ IF \A s \in PileSlots : rstore.slots[s] # NoMsg
       THEN \/ /\ rdoc' = [exists |-> TRUE, slots |-> rstore.slots,
                           clipId |-> rnewClip]
               /\ rstore' = [rstore EXCEPT !.clipId = rnewClip]
               /\ PileEnds("done")
            \/ /\ PileEnds("aborted")     \* the write throws
               /\ UNCHANGED <<rdoc, rstore>>
       ELSE /\ PileEnds("done")
            /\ UNCHANGED <<rdoc, rstore>>
    /\ UNCHANGED <<rchan, rnext, rholder, rnewClip, rruns>>

(***************************************************************************)
(* The ordered live list of the Community Pool and the Raid Pile           *)
(* (community-pool-tracker.ts, raid-pile-tracker.ts)                       *)
(***************************************************************************)

Users == {"a", "b", "c"}

MaxTime == 1

NoUser == "none"

\* Every order in which a read can return the users of the set S.
Orders(S) == {s \in [1..Cardinality(S) -> S] : Range(s) = S}

\* The comparator of the sort: a.started_at - b.started_at.
Compare(x, y) == startedAt[x] - startedAt[y]

\* Insert x into an ordered list behind every element that does not
\* compare greater: Array.prototype.sort is stable.
RECURSIVE Insert(_, _)
Insert(x, s) ==
    IF s = <<>> THEN <<x>>
    ELSE IF Compare(Head(s), x) > 0 THEN <<x>> \o s
    ELSE <<Head(s)>> \o Insert(x, Tail(s))

\* dbUsers...sort((a, b) => started_at(a) - started_at(b))
RECURSIVE SortByStartedAt(_)
SortByStartedAt(s) ==
    IF s = <<>> THEN <<>>
    ELSE Insert(s[Len(s)], SortByStartedAt(SubSeq(s, 1, Len(s) - 1)))

\* liveUsers.length > 0 ? liveUsers[0] : null
Holder(l) == IF Len(l) > 0 THEN l[1] ELSE NoUser

\* Two reads of the same live users and stream times, in any two orders.
SortInit ==
    /\ startedAt \in [Users -> 0..MaxTime]
    /\ \E S \in SUBSET Users :
          /\ dbUsersA \in Orders(S)
          /\ dbUsersB \in Orders(S)
    /\ liveUsersA = <<>>
    /\ liveUsersB = <<>>
    /\ lpc = "read"

\* The pass computes liveUsers from what each read returned.
SortLiveUsers ==
    /\ lpc = "read"
    /\ liveUsersA' = SortByStartedAt(dbUsersA)
    /\ liveUsersB' = SortByStartedAt(dbUsersB)
    /\ lpc' = "sorted"
    /\ UNCHANGED <<startedAt, dbUsersA, dbUsersB>>

\* The holder of the pile is the head of liveUsers, the rest is the queue.
PickHolder ==
    /\ lpc = "sorted"
    /\ lpc' = IF Holder(liveUsersA) = NoUser THEN "empty" ELSE "holder"
    /\ UNCHANGED <<startedAt, dbUsersA, dbUsersB, liveUsersA, liveUsersB>>

(***************************************************************************)
(* The interval timers of several guilds in the one bot process            *)
(* (raid-pile-tracker.ts; startTrackers calls start*Tracking per guild)    *)
(***************************************************************************)

Guilds == {"g1", "g2", "g3"}

MaxTicks == 2

MaxInFlight == 2

TimerInit ==
    /\ procUp = TRUE
    /\ armed = {}
    /\ wanted = {}
    /\ inflight = [g \in Guilds |-> 0]
    /\ fired = [g \in Guilds |-> 0]

\* startRaidPileTracking: a no-op when the guild has a timer, else
\* setInterval(() => checkRaidPile(client, guildId), CHECK_INTERVAL).
startRaidPileTracking(g) ==
    /\ procUp
    /\ g \notin armed
    /\ armed' = armed \cup {g}
    /\ wanted' = wanted \cup {g}
    /\ UNCHANGED <<procUp, inflight, fired>>

\* The interval of g fires: its callback calls checkRaidPile and drops the
\* promise; the pass runs on as an asynchronous task, whatever the passes
\* of this and of other guilds are doing.
TimerTick(g) ==
    /\ procUp
    /\ g \in armed
    /\ fired[g] < MaxTicks
    /\ inflight[g] < MaxInFlight
    /\ fired' = [fired EXCEPT ![g] = @ + 1]
    /\ inflight' = [inflight EXCEPT ![g] = @ + 1]
    /\ UNCHANGED <<procUp, armed, wanted>>

\* The pass's loadRaidPileChannelConfig rejects: it stands before the try,
\* so the dropped promise rejects with nobody handling it. The runtime
\* either only warns or ends the process, and with it every timer.
TickLoadRejects(g) ==
    /\ procUp
    /\ inflight[g] > 0
    /\ \/ /\ inflight' = [inflight EXCEPT ![g] = @ - 1]
          /\ UNCHANGED <<procUp, armed>>
       \/ /\ procUp' = FALSE
          /\ armed' = {}
          /\ inflight' = [h \in Guilds |-> 0]
    /\ UNCHANGED <<wanted, fired>>

\* The pass returns: an early return, its last statement, or an error
\* that its catch block has logged.
TickPassReturns(g) ==
    /\ procUp
    /\ inflight[g] > 0
    /\ inflight' = [inflight EXCEPT ![g] = @ - 1]
    /\ UNCHANGED <<procUp, armed, wanted, fired>>

(***************************************************************************)
(* The Community Pool spotlight of several guilds in the one bot process   *)
(* (community-pool-tracker.ts)                                             *)
(***************************************************************************)

PoolGuilds == {"g1", "g2"}

\* The longest live list of a guild.
MaxLive == 3

\* Passes and bootstraps in a run.
MaxPoolCalls == 5

\* "let spotlightIndex = 0" at module level; nothing has run yet.
SpotInit ==
    /\ spotlightIndex = 0
    /\ spotSeq = [g \in PoolGuilds |-> <<>>]
    /\ aloneIndex = [g \in PoolGuilds |-> 0]
    /\ aloneSeq = [g \in PoolGuilds |-> <<>>]
    /\ poolCalls = 0

\* (index + 1) % liveUsers.length
Rotate(i, n) == (i + 1) % n

\* checkCommunityPool of guild g with n live users: it returns before the
\* spotlight block (no configuration, no channel, a failing read), or it
\* advances the counter and spotlights liveUsers[spotlightIndex]; with an
\* empty list there is no spotlight and the counter stays.  The run in which
\* the other guilds do nothing advances the counter of g alone.
checkCommunityPool(g) ==
    /\ poolCalls < MaxPoolCalls
    /\ poolCalls' = poolCalls + 1
    /\ \/ UNCHANGED <<spotlightIndex, spotSeq, aloneIndex, aloneSeq>>
       \/ \E n \in 1..MaxLive :
            /\ spotlightIndex' = Rotate(spotlightIndex, n)
            /\ spotSeq' = [spotSeq EXCEPT
                              ![g] = Append(@, [n |-> n, idx |-> spotlightIndex'])]
            /\ aloneIndex' = [aloneIndex EXCEPT ![g] = Rotate(@, n)]
            /\ aloneSeq' = [aloneSeq EXCEPT ![g] = Append(@, aloneIndex'[g])]

\* runInitialCommunityPoolCheck of guild g: "spotlightIndex = 0"; the
\* checkCommunityPool it then awaits is a pass of g like any other.
runInitialCommunityPoolCheck(g) ==
    /\ poolCalls < MaxPoolCalls
    /\ poolCalls' = poolCalls + 1
    /\ spotlightIndex' = 0
    /\ aloneIndex' = [aloneIndex EXCEPT ![g] = 0]
    /\ UNCHANGED <<spotSeq, aloneSeq>>

(***************************************************************************)
(* The Raid Train pass: clock readings, conductor and conductor clip       *)
(* (raid-train-tracker.ts)                                                 *)
(***************************************************************************)

HoursPerDay == 24

\* The last hour the clock reaches.
MaxClock == 26

\* Passes in a run.
MaxTrainRuns == 2

TrainUsers == {"u1"}

\* What a schedule slot holds: nothing, the emergency marker (a signup
\* whose id is 'emergency'), or the id of the user who claimed it.
Signups == {"none", "emergency"} \cup TrainUsers

\* The slots that may hold a signup: 23:00 and 00:00 of day 0, 00:00 and
\* 01:00 of day 1.
BookableSlots == {<<0, 0>>, <<0, HoursPerDay - 1>>, <<1, 0>>, <<1, 1>>}

\* The message id of the clip an earlier pass left, and of a clip this
\* pass sends.
OldTrainClip == 5

NewTrainClip == 7

\* format(date, 'yyyy-MM-dd') and getHours(date) of a clock reading.
DateOf(t) == t \div HoursPerDay

HourOf(t) == t % HoursPerDay

\* schedule[currentSlot] of the schedule of day d; undefined is "none".
SlotOf(d, h) == IF <<d, h>> \in BookableSlots THEN sched[<<d, h>>] ELSE "none"

TrainInit ==
    /\ now = HoursPerDay - 2
    /\ tpc = "idle"
    /\ dateKey = 0
    /\ currentHour = 0
    /\ slotDate = 0
    /\ trainRuns = 0
    /\ sched \in [BookableSlots -> Signups]
    /\ tlive = {}
    /\ conductor = "none"
    /\ tdocClip \in {NoMsg, OldTrainClip}
    /\ tclip = NoMsg
    /\ clipPosted = FALSE

\* Time passes, at any point of a pass or between passes.
ClockAdvances ==
    /\ now < MaxClock
    /\ now' = now + 1
    /\ UNCHANGED <<tpc, dateKey, currentHour, slotDate, trainRuns, sched, tlive,
                   conductor, tclip, tdocClip, clipPosted>>

\* checkRaidTrain up to the Promise.all: the configuration is loaded into
\* the store and the channel is there, dateKey = format(new Date(),
\* 'yyyy-MM-dd'), and the schedule of dateKey, the live users and the
\* leaderboard are requested.
checkRaidTrain ==
    /\ tpc = "idle"
    /\ trainRuns < MaxTrainRuns
    /\ trainRuns' = trainRuns + 1
    /\ tclip' = tdocClip
    /\ dateKey' = DateOf(now)
    /\ conductor' = "none"
    /\ clipPosted' = FALSE
    /\ tlive' = {}
    /\ tpc' = "fetch"
    /\ UNCHANGED <<now, currentHour, slotDate, sched, tdocClip>>

\* liveUsers.find(u => u.twitchId === currentSignup.id) || null, for a
\* signup that is there and is not the emergency marker.
Conductor(signup, liveIds) ==
    IF signup # "none" /\ signup # "emergency" /\ signup \in liveIds
    THEN signup ELSE "none"

\* The three reads have resolved: currentHour = getHours(new Date()), and
\* the conductor is looked up in the schedule that was fetched for dateKey;
\* or a read rejected and the catch block ends the pass.
TrainPickSlot ==
    /\ tpc = "fetch"
    /\ \/ \E L \in SUBSET TrainUsers :
            /\ tlive' = L
            /\ currentHour' = HourOf(now)
            /\ slotDate' = DateOf(now)
            /\ conductor' = Conductor(SlotOf(dateKey, HourOf(now)), L)
            /\ tpc' = "picked"
       \/ /\ tpc' = "idle"
          /\ UNCHANGED <<currentHour, slotDate, tlive, conductor>>
    /\ UNCHANGED <<now, dateKey, trainRuns, sched, tclip, tdocClip, clipPosted>>

\* "Conductor Clip Logic": the old clip message is deleted and its id
\* dropped; with a conductor a clip message is sent when there is one to
\* send and the send succeeds; store.clipId = newClipId.  A throwing
\* buildClipGifMessageOptions ends the pass in the catch block.
TrainClip ==
    /\ tpc = "picked"
    /\ \/ /\ conductor # "none"
          /\ tclip' = NewTrainClip
          /\ clipPosted' = TRUE
          /\ tpc' = "persist"
       \/ /\ tclip' = NoMsg               \* no conductor, no clip, failed send
          /\ tpc' = "persist"
          /\ UNCHANGED clipPosted
       \/ /\ conductor # "none"
          /\ tclip' = NoMsg
          /\ tpc' = "idle"
          /\ UNCHANGED clipPosted
    /\ UNCHANGED <<now, dateKey, currentHour, slotDate, trainRuns, sched, tlive,
                   conductor, tdocClip>>

\* The edits of the fixed messages and setRaidTrainChannel with
\* clipId: newClipId: the document is replaced, or an edit or the write
\* throws, or an id of the five is unknown and nothing is written.
TrainPersist ==
    /\ tpc = "persist"
    /\ tpc' = "idle"
    /\ \/ tdocClip' = tclip
       \/ UNCHANGED tdocClip
    /\ UNCHANGED <<now, dateKey, currentHour, slotDate, trainRuns, sched, tlive,
                   conductor, tclip, clipPosted>>

(***************************************************************************)
(* VipLiveScheduler: start, stop and the dispatch loop                     *)
(* (server/vip-live-scheduler.ts, scripts/vip-live-refresh.ts)             *)
(***************************************************************************)

\* Calls of start() and ensureVipLiveScheduler() in a run.
MaxStartCalls == 3

VipInit ==
    /\ vipLiveScheduler = FALSE
    /\ guildSet \in BOOLEAN
    /\ runPromise = 0
    /\ aborted = FALSE
    /\ loopPc = "none"
    /\ loops = 0
    /\ requests = 0
    /\ startReturns = {}
    /\ startCalls = 0
    /\ stopState = "idle"
    /\ stoppedAt = "none"
    /\ dispatchAfterStop = FALSE

\* isRunning(): !!this.runPromise && !this.abortController.signal.aborted.
isRunning == runPromise # 0 /\ ~aborted

\* loop() from the test of its while condition to its first await: the
\* loop is over when the signal is aborted, sleeps when no guild id is
\* configured, and reads the configuration otherwise.
LoopHead == IF aborted THEN "done" ELSE IF guildSet THEN "config" ELSE "sleep"

\* sleepWithSignal called at once after an await: false (and the loop
\* breaks) when the signal is aborted, a pending sleep otherwise.
SleepOrBreak == IF aborted THEN "done" ELSE "sleep"

\* A start() that begins a loop on every call.
startAlways ==
    /\ loops' = loops + 1
    /\ runPromise' = loops + 1
    /\ loopPc' = LoopHead
    /\ startReturns' = startReturns \cup {loops + 1}

\* start(): the run promise there is, or the promise of a new loop, which
\* runs up to its first await inside the call.
start ==
    IF runPromise # 0
    THEN /\ startReturns' = startReturns \cup {runPromise}
         /\ UNCHANGED <<loops, runPromise, loopPc>>
    ELSE /\ loops' = loops + 1
         /\ runPromise' = loops + 1
         /\ loopPc' = LoopHead
         /\ startReturns' = startReturns \cup {loops + 1}

\* A caller that holds the instance calls start().
StartCalled ==
    /\ startCalls < MaxStartCalls
    /\ startCalls' = startCalls + 1
    /\ start
    /\ UNCHANGED <<vipLiveScheduler, guildSet, aborted, requests, stopState,
                   stoppedAt, dispatchAfterStop>>

\* ensureVipLiveScheduler(): the instance of the global slot, or a new
\* instance that is stored in the slot and started.
ensureVipLiveScheduler ==
    /\ startCalls < MaxStartCalls
    /\ startCalls' = startCalls + 1
    /\ IF vipLiveScheduler
       THEN UNCHANGED <<vipLiveScheduler, loops, runPromise, loopPc, startReturns>>
       ELSE /\ runPromise = 0 /\ ~aborted        \* the instance is new
            /\ vipLiveScheduler' = TRUE
            /\ start
    /\ UNCHANGED <<guildSet, aborted, requests, stopState, stoppedAt,
                   dispatchAfterStop>>

\* A stop() that awaits the loop without aborting the signal.
stopWithoutAbort ==
    /\ stopState = "idle"
    /\ stopState' = "waiting"
    /\ stoppedAt' = loopPc
    /\ UNCHANGED <<vipLiveScheduler, guildSet, runPromise, aborted, loopPc, loops,
                   requests, startReturns, startCalls, dispatchAfterStop>>

\* stop() up to its await: the signal is aborted.
stop ==
    /\ stopState = "idle"
    /\ aborted' = TRUE
    /\ stopState' = "waiting"
    /\ stoppedAt' = loopPc
    /\ UNCHANGED <<vipLiveScheduler, guildSet, runPromise, loopPc, loops,
                   requests, startReturns, startCalls, dispatchAfterStop>>

\* The await of stop() ends: runPromise is null, or the loop has returned.
StopResolves ==
    /\ stopState = "waiting"
    /\ runPromise = 0 \/ loopPc = "done"
    /\ stopState' = "resolved"
    /\ UNCHANGED <<vipLiveScheduler, guildSet, runPromise, aborted, loopPc, loops,
                   requests, startReturns, startCalls, stoppedAt,
                   dispatchAfterStop>>

\* sleepWithSignal settles: the time is up and the loop goes round, or the
\* abort rejects the sleep, which returns false, and the loop breaks.
SleepEnds ==
    /\ loopPc = "sleep"
    /\ loopPc' = LoopHead
    /\ UNCHANGED <<vipLiveScheduler, guildSet, runPromise, aborted, loops,
                   requests, startReturns, startCalls, stopState, stoppedAt,
                   dispatchAfterStop>>

\* fetchVipConfig settles (the read takes no signal): rejected or without
\* an active configuration, the loop sleeps; with one, dispatchVipEmbed
\* calls fetch, which rejects with an AbortError before any request when
\* the signal is already aborted.
ConfigSettles ==
    /\ loopPc = "config"
    /\ \/ /\ loopPc' = SleepOrBreak
          /\ UNCHANGED <<requests, dispatchAfterStop>>
       \/ IF aborted
          THEN /\ loopPc' = "done"
               /\ UNCHANGED <<requests, dispatchAfterStop>>
          ELSE /\ loopPc' = "dispatch"
               /\ requests' = requests + 1
               /\ dispatchAfterStop' = (dispatchAfterStop \/ stopState = "resolved")
    /\ UNCHANGED <<vipLiveScheduler, guildSet, runPromise, aborted, loops,
                   startReturns, startCalls, stopState, stoppedAt>>

\* The request settles: a response of any status, a network error, or the
\* AbortError of an abort; an AbortError breaks the loop, anything else
\* leads to sleepWithSignal.
DispatchSettles ==
    /\ loopPc = "dispatch"
    /\ requests' = requests - 1
    /\ loopPc' = SleepOrBreak
    /\ UNCHANGED <<vipLiveScheduler, guildSet, runPromise, aborted, loops,
                   startReturns, startCalls, stopState, stoppedAt,
                   dispatchAfterStop>>

(***************************************************************************)
(* The standalone VIP refresh script: an interval timer and runCycle       *)
(* (unnamed/part_004)                                                      *)
(***************************************************************************)

\* Calls of runCycle in a run: the initial one and the timer's ticks.
MaxCycleCalls == 5

ScriptInit ==
    /\ timer = FALSE
    /\ running = FALSE
    /\ cyclePc = "idle"
    /\ cycles = 0
    /\ sentRequests = 0
    /\ cycleCalls = 0
    /\ skippedTicks = 0
    /\ exits = {}
    /\ exited = FALSE

\* runCycle up to its first await: a call that finds the flag set returns;
\* otherwise the flag is set and the request is sent.
runCycle ==
    /\ cycleCalls' = cycleCalls + 1
    /\ IF running
       THEN /\ skippedTicks' = skippedTicks + 1
            /\ UNCHANGED <<running, cyclePc, cycles, sentRequests>>
       ELSE /\ running' = TRUE
            /\ cycles' = cycles + 1
            /\ sentRequests' = sentRequests + 1
            /\ cyclePc' = "fetch"
            /\ UNCHANGED skippedTicks

\* startTimer, the last statement of the script: the interval is set and
\* the first cycle is run at once.
startTimer ==
    /\ ~exited
    /\ cycleCalls = 0
    /\ timer' = TRUE
    /\ runCycle
    /\ UNCHANGED <<exits, exited>>

\* The interval fires.
IntervalFires ==
    /\ ~exited
    /\ timer
    /\ cycleCalls < MaxCycleCalls
    /\ runCycle
    /\ UNCHANGED <<timer, exits, exited>>

\* fetch resolves with a response, whose body is read next; or it throws
\* and the catch and finally blocks run.
FetchSettles ==
    /\ ~exited
    /\ cyclePc = "fetch"
    /\ \/ /\ cyclePc' = "json"
          /\ UNCHANGED <<running, cycles, exits>>
       \/ /\ cyclePc' = "idle"
          /\ running' = FALSE
          /\ cycles' = cycles - 1
          /\ exits' = exits \cup {"thrown"}
    /\ UNCHANGED <<timer, sentRequests, cycleCalls, skippedTicks, exited>>

\* A cycle end that resets the flag on the logged paths only.
CycleEndsWithoutFinally ==
    /\ ~exited
    /\ cyclePc = "json"
    /\ cyclePc' = "idle"
    /\ cycles' = cycles - 1
    /\ \E how \in {"success", "http error", "thrown"} :
          /\ exits' = exits \cup {how}
          /\ running' = (how = "thrown")
    /\ UNCHANGED <<timer, sentRequests, cycleCalls, skippedTicks, exited>>

\* The body is read (a failure gives null), the outcome is logged for an
\* ok and for a failed status, or the logging throws into the catch block;
\* the finally block resets the flag.
CycleEnds ==
    /\ ~exited
    /\ cyclePc = "json"
    /\ cyclePc' = "idle"
    /\ cycles' = cycles - 1
    /\ \E how \in {"success", "http error", "thrown"} :
          exits' = exits \cup {how}
    /\ running' = FALSE
    /\ UNCHANGED <<timer, sentRequests, cycleCalls, skippedTicks, exited>>

\* SIGINT or SIGTERM: stopTimer clears the interval and the process exits.
stopTimer ==
    /\ ~exited
    /\ timer' = FALSE
    /\ exited' = TRUE
    /\ UNCHANGED <<running, cyclePc, cycles, sentRequests, cycleCalls,
                   skippedTicks, exits>>

(***************************************************************************)
(* Specifications: one per state machine                                   *)
(***************************************************************************)

ClipIdle == ClipInit /\ doc.videoUrl

SchedIdle == SchedInit /\ kind = "vip" /\ ~cfg

SyncIdle == SyncInit /\ style = "each" /\ cdoc = NoDoc

SortIdle == SortInit /\ dbUsersA = <<>> /\ startedAt = [u \in Users |-> 0]

PileIdle == PileInit /\ rdoc = NoPileDoc

TimerIdle == TimerInit

SpotIdle == SpotInit

TrainIdle == TrainInit /\ sched = [s \in BookableSlots |-> "none"] /\ tdocClip = NoMsg

VipIdle == VipInit /\ guildSet

ScriptIdle == ScriptInit

\* What a step of each machine leaves alone: the other machines.
ClipFrame == UNCHANGED <<schedVars, syncVars, sortVars, pileVars, timerVars, spotVars, trainVars, vipVars, scriptVars>>

SchedFrame == UNCHANGED <<clipVars, syncVars, sortVars, pileVars, timerVars, spotVars, trainVars, vipVars, scriptVars>>

SyncFrame == UNCHANGED <<clipVars, schedVars, sortVars, pileVars, timerVars, spotVars, trainVars, vipVars, scriptVars>>

SortFrame == UNCHANGED <<clipVars, schedVars, syncVars, pileVars, timerVars, spotVars, trainVars, vipVars, scriptVars>>

PileFrame == UNCHANGED <<clipVars, schedVars, syncVars, sortVars, timerVars, spotVars, trainVars, vipVars, scriptVars>>

TimerFrame == UNCHANGED <<clipVars, schedVars, syncVars, sortVars, pileVars, spotVars, trainVars, vipVars, scriptVars>>

SpotFrame == UNCHANGED <<clipVars, schedVars, syncVars, sortVars, pileVars, timerVars, trainVars, vipVars, scriptVars>>

TrainFrame == UNCHANGED <<clipVars, schedVars, syncVars, sortVars, pileVars, timerVars, spotVars, vipVars, scriptVars>>

VipFrame == UNCHANGED <<clipVars, schedVars, syncVars, sortVars, pileVars, timerVars, spotVars, trainVars, scriptVars>>

ScriptFrame == UNCHANGED <<clipVars, schedVars, syncVars, sortVars, pileVars, timerVars, spotVars, trainVars, vipVars>>

ClipNext ==
    \E p \in Procs :
        \/ startClipGifProcessing(p) /\ ClipFrame
        \/ processClipDoc(p) /\ ClipFrame
        \/ markProcessing(p) /\ ClipFrame
        \/ markProcessingThrows(p) /\ ClipFrame
        \/ MakeTempDir(p) /\ ClipFrame
        \/ PipelineStage(p) /\ ClipFrame
        \/ finalizeDoc(p) /\ ClipFrame
        \/ RemoveTempDir(p) /\ ClipFrame
        \/ updateDocWithError(p) /\ ClipFrame

SchedNext ==
    \/ StartTracking /\ SchedFrame
    \/ TimeoutFires /\ SchedFrame
    \/ LoadResolves /\ SchedFrame
    \/ LoadRejects /\ SchedFrame
    \/ \E id \in TimerIds : Tick(id) /\ SchedFrame
    \/ NextWindow /\ SchedFrame
    \/ PassEnd /\ SchedFrame
    \/ BootstrapBegin /\ SchedFrame
    \/ BootstrapCheck /\ SchedFrame
    \/ BootstrapCheckDone /\ SchedFrame
    \/ BootstrapFinish /\ SchedFrame
    \/ BootstrapFails /\ SchedFrame
    \/ StopTracking /\ SchedFrame
    \/ StopReturns /\ SchedFrame

PassNext ==
    \/ checkVips /\ SyncFrame
    \/ FetchChannel /\ SyncFrame
    \/ LiveVips /\ SyncFrame
    \/ ClearAll /\ SyncFrame
    \/ CleanupOffline /\ SyncFrame
    \/ PostCard /\ SyncFrame
    \/ PostClip /\ SyncFrame
    \/ DeleteOldClip /\ SyncFrame
    \/ UpdateFooter /\ SyncFrame
    \/ setVipLiveChannel /\ SyncFrame

\* A pass, and then the pass of the next tick over the same live list.
RepeatNext ==
    \/ PassNext
    \/ checkVipsAgain /\ SyncFrame

\* A pass that starts while the pass of the previous tick is in flight.
OverlapNext ==
    \/ PassNext
    \/ OlderPassCleanup /\ SyncFrame

\* A pass, and a stop that is called while the pass is in flight.
StopDuringNext ==
    \/ PassNext
    \/ StopDuringPass /\ SyncFrame

StopNext ==
    \/ stopVipTracking /\ SyncFrame
    \/ StopFetchChannel /\ SyncFrame
    \/ StopDeleteEach /\ SyncFrame
    \/ StopBulkDelete /\ SyncFrame
    \/ StopDeleteConfig /\ SyncFrame

ClipStart == ClipInit /\ SchedIdle /\ SyncIdle /\ SortIdle /\ PileIdle /\ TimerIdle /\ SpotIdle /\ TrainIdle /\ VipIdle /\ ScriptIdle

SpecClip == ClipStart /\ [][ClipNext]_vars

SchedStart == SchedInit /\ ClipIdle /\ SyncIdle /\ SortIdle /\ PileIdle /\ TimerIdle /\ SpotIdle /\ TrainIdle /\ VipIdle /\ ScriptIdle

SpecSched == SchedStart /\ [][SchedNext]_vars

PassStart == SyncInit /\ style = "each" /\ ClipIdle /\ SchedIdle /\ SortIdle /\ PileIdle /\ TimerIdle /\ SpotIdle /\ TrainIdle /\ VipIdle /\ ScriptIdle

SpecPass == PassStart /\ [][PassNext]_vars

StopStart == SyncInit /\ ClipIdle /\ SchedIdle /\ SortIdle /\ PileIdle /\ TimerIdle /\ SpotIdle /\ TrainIdle /\ VipIdle /\ ScriptIdle

SpecStop == StopStart /\ [][StopNext]_vars

RepeatStart == PassStart /\ again = FALSE

OverlapStart == PassStart /\ runs = 0

StopDuringStart == PassStart /\ sres = "none"

SpecStopDuring == StopDuringStart /\ [][StopDuringNext]_vars

SpecOverlap == OverlapStart /\ [][OverlapNext]_vars

SpecRepeat == RepeatStart /\ [][RepeatNext]_vars

SortNext ==
    \/ SortLiveUsers /\ SortFrame
    \/ PickHolder /\ SortFrame

SortStart == SortInit /\ ClipIdle /\ SchedIdle /\ SyncIdle /\ PileIdle /\ TimerIdle /\ SpotIdle /\ TrainIdle /\ VipIdle /\ ScriptIdle

SpecSort == SortStart /\ [][SortNext]_vars

PileNext ==
    \/ checkRaidPile /\ PileFrame
    \/ PileFetchChannel /\ PileFrame
    \/ PileLiveUsers /\ PileFrame
    \/ PileDeleteOldClip /\ PileFrame
    \/ PilePostClip /\ PileFrame
    \/ PileUpdateSlots /\ PileFrame
    \/ setRaidPileChannel /\ PileFrame

PileStart == PileInit /\ ClipIdle /\ SchedIdle /\ SyncIdle /\ SortIdle /\ TimerIdle /\ SpotIdle /\ TrainIdle /\ VipIdle /\ ScriptIdle

SpecPile == PileStart /\ [][PileNext]_vars

\* The bootstrap of the VIP tracker: the passes' steps run inside it.
BootNext ==
    \/ runInitialVipCheck /\ SyncFrame
    \/ BootCheckVips /\ SyncFrame
    \/ FetchChannel /\ SyncFrame
    \/ LiveVips /\ SyncFrame
    \/ ClearAll /\ SyncFrame
    \/ CleanupOffline /\ SyncFrame
    \/ PostCard /\ SyncFrame
    \/ PostClip /\ SyncFrame
    \/ DeleteOldClip /\ SyncFrame
    \/ UpdateFooter /\ SyncFrame
    \/ setVipLiveChannel /\ SyncFrame
    \/ BootFooter /\ SyncFrame
    \/ BootPersist /\ SyncFrame

BootStart == PassStart /\ bpc = "idle"

SpecBoot == BootStart /\ [][BootNext]_vars

TimerNext ==
    \E g \in Guilds :
        \/ startRaidPileTracking(g) /\ TimerFrame
        \/ TimerTick(g) /\ TimerFrame
        \/ TickLoadRejects(g) /\ TimerFrame
        \/ TickPassReturns(g) /\ TimerFrame

TimerStart == TimerInit /\ ClipIdle /\ SchedIdle /\ SyncIdle /\ SortIdle /\ PileIdle /\ SpotIdle /\ TrainIdle /\ VipIdle /\ ScriptIdle

SpecTimers == TimerStart /\ [][TimerNext]_vars


SpotNext ==
    \E g \in PoolGuilds :
        \/ checkCommunityPool(g) /\ SpotFrame
        \/ runInitialCommunityPoolCheck(g) /\ SpotFrame

SpotStart == SpotInit /\ ClipIdle /\ SchedIdle /\ SyncIdle /\ SortIdle /\ PileIdle /\ TimerIdle /\ TrainIdle /\ VipIdle /\ ScriptIdle

SpecSpot == SpotStart /\ [][SpotNext]_vars

TrainNext ==
    \/ ClockAdvances /\ TrainFrame
    \/ checkRaidTrain /\ TrainFrame
    \/ TrainPickSlot /\ TrainFrame
    \/ TrainClip /\ TrainFrame
    \/ TrainPersist /\ TrainFrame

TrainStart == TrainInit /\ ClipIdle /\ SchedIdle /\ SyncIdle /\ SortIdle /\ PileIdle /\ TimerIdle /\ SpotIdle /\ VipIdle /\ ScriptIdle

SpecTrain == TrainStart /\ [][TrainNext]_vars

\* ---- VipLiveScheduler ----

VipNext ==
    \/ StartCalled /\ VipFrame
    \/ ensureVipLiveScheduler /\ VipFrame
    \/ stop /\ VipFrame
    \/ StopResolves /\ VipFrame
    \/ SleepEnds /\ VipFrame
    \/ ConfigSettles /\ VipFrame
    \/ DispatchSettles /\ VipFrame

VipStart == VipInit /\ ClipIdle /\ SchedIdle /\ SyncIdle /\ SortIdle /\ PileIdle /\ TimerIdle /\ SpotIdle /\ TrainIdle /\ ScriptIdle

SpecVip == VipStart /\ [][VipNext]_vars

\* Timers fire, reads and requests settle, and the continuation of a
\* settled await runs.
VipFairness ==
    /\ WF_vars(StopResolves /\ VipFrame)
    /\ WF_vars(SleepEnds /\ VipFrame)
    /\ WF_vars(ConfigSettles /\ VipFrame)
    /\ WF_vars(DispatchSettles /\ VipFrame)

SpecVipFair == VipStart /\ [][VipNext]_vars /\ VipFairness

\* ---- The standalone VIP refresh script ----

ScriptNext ==
    \/ startTimer /\ ScriptFrame
    \/ IntervalFires /\ ScriptFrame
    \/ FetchSettles /\ ScriptFrame
    \/ CycleEnds /\ ScriptFrame
    \/ stopTimer /\ ScriptFrame

ScriptStart == ScriptInit /\ ClipIdle /\ SchedIdle /\ SyncIdle /\ SortIdle /\ PileIdle /\ TimerIdle /\ SpotIdle /\ TrainIdle /\ VipIdle

SpecScript == ScriptStart /\ [][ScriptNext]_vars
(***************************************************************************)
(* Claims about the clip conversion pipeline                               *)
(***************************************************************************)

\* The stages of a run that has claimed the document and has not yet written
\* complete or error.
HoldStages == {"mkdtemp", "download", "convert", "upload", "finalize", "rm_err"}

Holders == {p \in Procs : pc[p] \in HoldStages}

\* C1: of the invocations that were handed the document while it was pending
\* (with a videoUrl and no gifUrl), at most one commits the claim; the others
\* get null from markProcessing and do no work.
C1_ClaimExactlyOnce == Cardinality(claimedFrom) <= 1

\* C2: at most one pipeline run is between its successful claim and its
\* complete/error write, in every reachable state.
C2_AtMostOneHolder == Cardinality(Holders) <= 1

\* C3: the error status is terminal: no step takes the document from error
\* to processing (the model has no external reset).
C3_ErrorIsTerminal == [][doc.status = "error" => doc'.status # "processing"]_vars


\* The invocation of p ends in this step.
Ends(p) == pc[p] # "idle" /\ pc'[p] = "idle"

\* C26: an invocation whose download failed ends with the document in
\* status error with an error message, and its last step does not touch
\* gifUrl.
C26_DownloadFailureMarksError ==
    [][\A p \in Procs :
          (Ends(p) /\ outcome[p] = "download")
          => /\ doc'.status = "error"
             /\ doc'.errorMessage
             /\ doc'.gifUrl = doc.gifUrl]_vars

\* The claim transaction of p returns in this step without throwing.
ClaimReturns(p) == pc[p] = "claim" /\ pc'[p] \notin {"claim", "errwrite"}

\* What makes the claim transaction abort, in the claim's words.
NotClaimable(d) ==
    ~d.videoUrl \/ d.gifUrl \/ d.status \in {"processing", "complete"}

\* C27: when the claim transaction finds a document with no source URL,
\* with an output URL, or with status processing or complete, the
\* invocation ends there: the document is exactly as it was, no
\* notification is caused, no scratch directory is made and the process
\* takes no conversion step.
C27_AbortHasNoEffect ==
    [][\A p \in Procs :
          (ClaimReturns(p) /\ NotClaimable(doc))
          => /\ doc' = doc
             /\ notif' = notif
             /\ pc'[p] = "idle"
             /\ tempDir'[p] = "none"
             /\ ~processingDocs'[p]]_vars

\* A process whose invocation was refused at the claim while the document
\* was not claimable.
C27_Witness ==
    \E p \in Procs :
        pc[p] = "idle" /\ outcome[p] = "null" /\ NotClaimable(doc)

\* C28: an invocation whose download, conversion, upload and completion
\* write all succeeded ends with the document complete, with gifUrl,
\* gifStoragePath and durationSeconds set and no error fields; and a
\* complete document has a gifUrl in every state.
C28_SuccessCompletes ==
    [][/\ \A p \in Procs :
             (Ends(p) /\ outcome[p] = "complete")
             => /\ doc'.status = "complete"
                /\ doc'.gifUrl /\ doc'.gifStoragePath /\ doc'.durationSeconds
                /\ ~doc'.errorMessage /\ ~doc'.errorAt
       /\ (doc'.status = "complete" => doc'.gifUrl)]_vars

\* C29 (as stated): no scratch directory outlives its invocation.
C29_NoDirOutlives == \A p \in Procs : pc[p] = "idle" => tempDir[p] = "none"

\* C29 (amended): once an invocation that made a scratch directory is past
\* its pipeline (ended, or in its catch block), its removal has been
\* attempted: the directory is gone, or the removal failed and the failure
\* was ignored.
C29_RemovalAlwaysAttempted ==
    \A p \in Procs : pc[p] \in {"idle", "errwrite"} => tempDir[p] # "exists"

\* An invocation that failed after making its directory, and whose
\* directory is gone.
C29_Witness ==
    \E p \in Procs :
        /\ pc[p] = "idle"
        /\ outcome[p] \in {"download", "convert", "upload", "finalize"}
        /\ tempDir[p] = "none"

\* C37: the in-process set is exact: a process holds the key of the
\* document exactly while an invocation of processClipDoc for it is
\* running, whichever way the invocation ended.
C37_ProcessingDocsExact ==
    \A p \in Procs : processingDocs[p] <=> pc[p] # "idle"

\* Every invocation is over, one of them failed at the download, and the
\* document is still "processing": the error write of the last claimant
\* was rejected, and its key is released all the same.
C37_Witness ==
    /\ \A p \in Procs : pc[p] = "idle" /\ ~processingDocs[p]
    /\ \E p \in Procs : outcome[p] = "download"
    /\ doc.status = "processing"
(***************************************************************************)
(* Claims about the scheduler                                              *)
(***************************************************************************)

\* C4: at most one check* pass of the pair is in flight (between its config
\* load and its persist) at any time, whatever the passes' durations.
C4_PassesNeverOverlap == InFlight <= 1

\* C5: as long as only start has been called for the pair (any number of
\* times, no stop in between), at most one interval timer exists.
C5_StartIdempotent == AllStarts => Cardinality(intervals) <= 1

\* C6: after two bootstraps in a row (each followed by its start), at most
\* one scheduled tick fires per interval window.
C6_OneTickPerWindowAfterReboot ==
    (calls = <<"boot", "boot">> /\ boot = "idle") => ticks <= 1

\* C7: once stop has been called, no timer starts a check* pass for the pair
\* until start or bootstrap is called again.
C7_StopCancelsTicks == ~checkedAfterStop


\* C25: whatever the passes of the other guilds do, hang or fail, the
\* timer of a guild whose tracking was started stays set, so that its
\* ticks go on starting passes.
C25_TimersIndependent == \A g \in wanted : g \in armed

\* The indexes guild g's passes chose, in order.
Chosen(g) == [k \in 1..Len(spotSeq[g]) |-> spotSeq[g][k].idx]

\* C33: the entities a guild's passes spotlight do not depend on what the
\* other guilds do: the sequence of indexes its passes choose is the one
\* they choose in the run in which the other guilds neither pass nor
\* bootstrap.
C33_SpotlightIsolated == \A g \in PoolGuilds : Chosen(g) = aloneSeq[g]

\* C34: the spotlight index of a pass is within its live list, and n
\* consecutive passes of a guild over a live list of n entities choose n
\* different indexes.
C34_SpotlightRotates ==
    \A g \in PoolGuilds :
        /\ \A k \in 1..Len(spotSeq[g]) :
              spotSeq[g][k].idx \in 0..(spotSeq[g][k].n - 1)
        /\ \A n \in 1..MaxLive : \A k \in 1..Len(spotSeq[g]) :
              (/\ k + n - 1 <= Len(spotSeq[g])
               /\ \A j \in k..(k + n - 1) : spotSeq[g][j].n = n)
              => Cardinality({spotSeq[g][j].idx : j \in k..(k + n - 1)}) = n

\* C35: when a Raid Train pass has picked its hour slot, the hour was read
\* on the day of the date key with which the schedule was fetched.
C35_SlotOfTheSameDate ==
    tpc \in {"picked", "persist"} => slotDate = dateKey

\* The signup of the schedule slot of the hour at which the pass read the
\* clock for its slot.
CurrentHourSignup == SlotOf(slotDate, currentHour)

\* C36: when a Raid Train pass is through its clip logic, it has a
\* conductor, and has posted a clip, only if the slot of the current hour
\* holds a signup that is not the emergency marker and is the id of a live
\* user, who then is the conductor; without a conductor it has posted no
\* clip and the store holds no clip id.
C36_ConductorOnlyFromSlot ==
    tpc = "persist"
        => /\ (conductor # "none" \/ clipPosted)
                => /\ CurrentHourSignup \in TrainUsers \cap tlive
                   /\ conductor = CurrentHourSignup
           /\ conductor = "none" => (~clipPosted /\ tclip = NoMsg)

\* C38: a VipLiveScheduler runs at most one loop: however often start()
\* and ensureVipLiveScheduler() are called, loop() is called at most once,
\* every start() returns the same run promise, and at most one dispatch
\* request is in flight.
C38_OneLoop ==
    /\ loops <= 1
    /\ Cardinality(startReturns) <= 1
    /\ requests <= 1

\* Three calls of start() or ensureVipLiveScheduler() have been made, the
\* instance is the global one, and its loop has a request in flight.
C38_Witness ==
    /\ startCalls = MaxStartCalls
    /\ vipLiveScheduler
    /\ loopPc = "dispatch"
    /\ requests = 1

\* The loop is not running: it was never started, or it has returned.
LoopOver == loopPc \in {"none", "done"}

\* C39: once stop() has been called isRunning() is false for good; the
\* loop terminates wherever it was and stop() then resolves; and once
\* stop() has resolved the loop is over, no request is in flight and no
\* dispatch is started any more.
C39_StopEndsTheLoop ==
    /\ [](stopState # "idle" => ~isRunning)
    /\ [](stopState = "resolved"
            => LoopOver /\ requests = 0 /\ ~dispatchAfterStop)
    /\ (stopState = "waiting" ~> (stopState = "resolved" /\ LoopOver))

\* stop() was called while a dispatch request was in flight, and has
\* resolved.
C39_Witness ==
    /\ stopState = "resolved"
    /\ stoppedAt = "dispatch"

\* stop() was called during the read of the configuration, or during a
\* sleep, and has resolved.
C39_WitnessOtherStates ==
    /\ stopState = "resolved"
    /\ stoppedAt \in {"config", "sleep"}

\* C40: in the standalone refresh script cycles never overlap: at most one
\* cycle is in flight, the flag is set exactly while one is, a call of
\* runCycle that finds the flag set sends no request, and a call that
\* finds it reset, however the cycle before it ended, sends one.
C40_CyclesNeverOverlap ==
    /\ [](/\ cycles <= 1
          /\ running <=> cycles = 1
          /\ sentRequests + skippedTicks = cycleCalls)
    /\ [][(cycleCalls' = cycleCalls + 1 /\ running)
             => (sentRequests' = sentRequests /\ cycles' = cycles)]_vars
    /\ [][(cycleCalls' = cycleCalls + 1 /\ cycles = 0)
             => sentRequests' = sentRequests + 1]_vars

\* A tick was skipped, cycles have ended in each of the three ways, and a
\* later tick has started the cycle now in flight.
C40_Witness ==
    /\ skippedTicks >= 1
    /\ exits = {"success", "http error", "thrown"}
    /\ running

(***************************************************************************)
(* Claims about stop*Tracking and the reconciliation pass                  *)
(***************************************************************************)

\* C8: a stop that finds no configuration document, or one without
\* channelId, returns false and has performed no channel operation (fetch,
\* delete, bulk delete) and no document-store write.
C8_StopWithoutConfig ==
    (spc = "idle" /\ sSeen \in {"absent", "nochannel"}) =>
        (sres = "false" /\ sOps = 0 /\ sWrites = 0 /\ attempted = {})

C8_Witness == spc = "idle" /\ sSeen = "nochannel" /\ sres = "false"

\* C9: a stop that finds a configuration with a channelId (and whose store
\* calls do not reject) returns true, and when it returns the document is
\* deleted and a delete has been attempted for every message id the
\* configuration referenced.
C9_StopDeletesEverything ==
    (spc = "idle" /\ sSeen = "config" /\ sres # "threw") =>
        (sres = "true" /\ ~cdoc.exists /\ sids \subseteq attempted)

\* A pass that ran to its end: it persisted, or took the empty-roster return.
PassCompleted == ppc = "idle" /\ pres \in {"done", "empty"}

SecondPassCompleted == again /\ ppc = "idle" /\ pres = "done"

\* C11: a second pass over the state the first pass left, with the live
\* list unchanged, creates no message and deletes no message, cards, clip
\* messages, header and footer included.
C11_SecondPassIdempotent ==
    SecondPassCompleted => /\ nextId = id0
                           /\ chan0 \subseteq chan

\* C12: after a completed pass over posted messages that all still exist,
\* the persisted card map has exactly the live entities as its keys, and
\* keeps the posted id of every entity that was posted and is live.
C12_PersistedMapIsLive ==
    (ppc = "idle" /\ pres = "done" /\ Values(P0) \subseteq chan0 /\ unfetched = {})
        => /\ Keys(cdoc.cards) = Range(live)
           /\ \A e \in Keys(P0) \cap Range(live) : cdoc.cards[e] = P0[e]

\* C13: a completed pass whose live list is empty has issued a delete for
\* every posted card, has deleted neither header nor footer, and has
\* persisted an empty card map.
C13_EmptyLiveList ==
    (PassCompleted /\ live = <<>>)
        => /\ nDel = Cardinality(Keys(P0))
           /\ \A m \in {cdoc.headerId, cdoc.footerId} \cap chan0 : m \in chan
           /\ Keys(cdoc.cards) = {}

\* C14: whatever order the store returns the users in, the cards a pass
\* creates are created in ascending stream-start order, earliest first.
C14_CreatedInStartOrder ==
    (ppc = "idle" /\ pres = "done")
        => \A e1, e2 \in Range(live) :
              (/\ mstore.cards[e1] >= id0
               /\ mstore.cards[e2] >= id0
               /\ StartedAt[e1] < StartedAt[e2])
                  => mstore.cards[e1] < mstore.cards[e2]

\* C15: for any two orders in which the store returns the same users, the
\* ordered live list is the same, ties in stream start included, and so
\* is the holder of the pile.
C15_SameListForAnyStoreOrder ==
    lpc # "read" => /\ liveUsersA = liveUsersB
                    /\ Holder(liveUsersA) = Holder(liveUsersB)

\* C16: the old clip message of an entity is deleted before its new one
\* is created: the channel never holds two clip messages of one entity.
C16_OldClipDeletedFirst ==
    ppc = "oldclip" => ~(/\ oldClip \in chan
                         /\ mstore.clips[live[pidx]] \in chan \ {oldClip})

\* C17: after a pass has persisted, no clip id that the persisted state
\* keeps for a live entity refers to a message that the pass deleted.
C17_NoStaleClipId ==
    (ppc = "idle" /\ pres = "done")
        => \A e \in Range(live) : cdoc.clips[e] \notin chan0 \ chan

\* C18: when a message operation fails after the pass has created cards,
\* the ids of the created cards are in the persisted state.
C18_PartialSuccessPersisted ==
    (ppc = "idle" /\ pres = "aborted" /\ failedAt \in {"card", "footer"})
        => \A e \in Ents : mstore.cards[e] >= id0
                              => cdoc.cards[e] = mstore.cards[e]

\* C19: every error of a pass, the initial load of the configuration
\* included, is caught inside the pass: none leaves checkVips.
C19_NoErrorEscapes == ~(ppc = "idle" /\ pres = "escaped")

\* C20: no failure of the clip step ends the pass: the cards of the live
\* entities, the footer and the persisted state do not depend on it.
C20_ClipErrorsNeverBlock == ~(ppc = "idle" /\ pres = "aborted" /\ failedAt = "clip")

\* C21: a pass that finds the configured channel gone deletes the
\* persisted configuration before it stops.
C21_DeadChannelDeletesConfig ==
    (ppc = "idle" /\ pres = "nochannel") => ~cdoc.exists

\* C22: after a pass that ran to its end, every message id the persisted
\* state references is the id of a message in the channel: the id of a
\* message somebody else deleted has been replaced.
C22_OrphansSelfHeal ==
    (rpc = "idle" /\ rres = "done")
        => \A s \in PileSlots : rdoc.slots[s] \in rchan

\* C23: when bootstrap has returned, it has edited no message that was
\* there before it began, and the header, the footer and the card of
\* every live entity are messages it has posted.
C23_BootstrapOnlyCreates ==
    bpc = "done"
        => /\ \A m \in edits : m >= b0
           /\ mstore.headerId >= b0 /\ mstore.headerId \in chan
           /\ mstore.footerId >= b0 /\ mstore.footerId \in chan
           /\ \A e \in Range(live) : /\ mstore.cards[e] >= b0
                                     /\ mstore.cards[e] \in chan

\* C24: a pass posts a clip for at most one entity, so the state holds at
\* most one clip message id that the pass has written.
C24_AtMostOneClip ==
    Cardinality({e \in Ents : mstore.clips[e] >= id0}) <= 1

\* C30: every steady-state pass diffs against the persisted state: the
\* posted-id map a pass takes for its diff, when its roster reads have
\* returned, is the map stored in the configuration document, whatever an
\* earlier pass did to the in-memory store.
C30_DiffAgainstPersisted ==
    [][(ppc = "roster" /\ ppc' \in {"offline", "noroster"})
          => P0' = cdoc.cards]_vars

\* C31: once stop has returned true and the pass that was in flight has
\* finished, no configuration document exists, and no message that the
\* pass created is left in the channel.
C31_StopIsFinal ==
    (sres = "true" /\ ppc = "idle")
        => /\ ~cdoc.exists
           /\ {m \in chan : m >= id0} = {}

\* C32: when a bootstrap has completed, the persisted headerId and footerId
\* are those of the header and footer this bootstrap posted, and every
\* message the bootstrap posted that is in the channel is referenced by the
\* persisted document.
C32_BootstrapPersistsItsOwn ==
    bpc = "done"
        => /\ cdoc.exists /\ cdoc.channelId
           /\ cdoc.headerId = b0
           /\ cdoc.footerId >= b0
           /\ {m \in chan : m >= b0} \subseteq Refs(cdoc)
====
